---- MODULE Spec2Model ----
(***************************************************************************)
(* Cross-view selection model of the Caledonia 1874 viewer: the info      *)
(* panel script with its own Store (tab, filter, selection, flags,        *)
(* preview), the highlight Store shared by the two Leaflet layers, and    *)
(* the window events that tie them (map:click:*, ui:highlight, ui:focus). *)
(* dispatchEvent and Store notification are synchronous in the source, so *)
(* one action is one input callback run to completion.                    *)
(***************************************************************************)
EXTENDS Integers, Sequences, FiniteSets, TLC

VARIABLES
  panel,     \* the panel Store's state object
  subs,      \* the panel Store's subscribers, in insertion order
  notes,     \* the calls the panel Store made to its subscribers in the last callback
  pdata,     \* the panel script's Data object
  panelUp,   \* the panel's init() has passed "await loadAll()"
  info,      \* what renderInfo last painted into #info-panel
  list,      \* the ids renderBrowserList last painted, with the kind of each row
  strip,     \* the preview strip: hidden flag and the closures of its two buttons
  timers,    \* how many tab-pulse timeouts are pending
  hl,        \* the highlight Store's state: activeOrigins, activeParcels
  mdata,     \* the map scripts' Data object (data.js)
  mapsUp,    \* the maps' init() has passed "await loadAllData()" and built both layers
  initErr,   \* where the maps' init() was rejected: "none", "loadAllData", "buildOriginsLayer";
             \* "hang" once a loop of a callback never ended, which leaves the page frozen
  popup,     \* per map, the bound popup that is open and whether its button is wired
  destroyed, \* the layers whose destroy() has been called
  emitted,   \* the window events dispatched by the last callback, in order
  lastOp     \* the last callback that ran, with its arguments

vars == <<panel, subs, notes, pdata, panelUp, info, list, strip, timers,
          hl, mdata, mapsUp, initErr, popup, destroyed, emitted, lastOp>>

-----------------------------------------------------------------------------
(* Bounds of the model *)

\* how many tab-pulse timeouts may be pending at once
MaxTimers == 2

-----------------------------------------------------------------------------
(* Sequences as JavaScript arrays *)

SeqToSet(s) == {s[i] : i \in DOMAIN s}

RECURSIVE FlatMap(_, _)
\* xs.flatMap(x => F(x)) for a table F of arrays; an absent key gives []
FlatMap(xs, idx) ==
  IF xs = <<>> THEN <<>>
  ELSE (IF Head(xs) \in DOMAIN idx THEN idx[Head(xs)] ELSE <<>>) \o FlatMap(Tail(xs), idx)

RECURSIVE Dedupe(_)
\* Array.from(new Set(xs)): first occurrences, in order
Dedupe(xs) ==
  IF xs = <<>> THEN <<>>
  ELSE LET init == Dedupe(SubSeq(xs, 1, Len(xs) - 1))
           x == xs[Len(xs)]
       IN IF x \in SeqToSet(init) THEN init ELSE Append(init, x)

\* the position of every string of the model under
\* localeCompare(_, undefined, {sensitivity: 'base'}): digits before letters,
\* letter case ignored
collation ==
  [s \in {"1874:10", "1874:11", "abel", "F1", "F2", "Fischer", "O1", "O2", "Posen", "Schmidt",
          "SCHULZ", "Zittau"} |->
     CASE s = "1874:10" -> 1 [] s = "1874:11" -> 2 [] s = "abel" -> 3
       [] s = "F1" -> 4 [] s = "F2" -> 5 [] s = "Fischer" -> 6 [] s = "O1" -> 7 [] s = "O2" -> 8
       [] s = "Posen" -> 9 [] s = "Schmidt" -> 10 [] s = "SCHULZ" -> 11 [] s = "Zittau" -> 12]

\* byAlpha(a, b) <= 0
byAlphaLeq(a, b) == collation[a] <= collation[b]

RECURSIVE Insert(_, _)
Insert(sorted, x) ==
  IF sorted = <<>> THEN <<x>>
  ELSE IF byAlphaLeq(Head(sorted), x) THEN <<Head(sorted)>> \o Insert(Tail(sorted), x)
  ELSE <<x>> \o sorted

RECURSIVE SortByAlpha(_)
\* xs.slice().sort(byAlpha); Array.prototype.sort is stable
SortByAlpha(xs) ==
  IF xs = <<>> THEN <<>>
  ELSE Insert(SortByAlpha(SubSeq(xs, 1, Len(xs) - 1)), xs[Len(xs)])

\* idx[k] || []
Lookup(idx, k) == IF k \in DOMAIN idx THEN idx[k] ELSE <<>>

EmptyMap == [k \in {} |-> <<>>]

-----------------------------------------------------------------------------
(* The dataset the scripts fetch *)

FamilyIds == {"F1", "F2"}
OriginHandles == {"O1", "O2"}
ParcelKeys == {"1874:10", "1874:11"}

Tabs == {"families", "origins", "parcels"}
Kinds == {"family", "origin", "parcel"}
IdsOf(kind) ==
  CASE kind = "family" -> FamilyIds [] kind = "origin" -> OriginHandles
    [] kind = "parcel" -> ParcelKeys

\* what the six resources of loadAll hold
PanelFiles ==
  [families |-> [f \in FamilyIds |->
                   [id |-> f, label |-> IF f = "F1" THEN "Schmidt" ELSE "abel"]],
   origins |-> [o \in OriginHandles |-> [name |-> IF o = "O1" THEN "Posen" ELSE "Zittau"]],
   familyOriginIndex |-> [f \in FamilyIds |-> IF f = "F1" THEN <<"O1">> ELSE <<"O2", "O1">>],
   originFamilyIndex |-> [o \in OriginHandles |-> IF o = "O1" THEN <<"F2", "F1">> ELSE <<"F2">>],
   familyParcelIndex |-> [f \in FamilyIds |->
                            IF f = "F1" THEN <<"1874:10">> ELSE <<"1874:11", "1874:10">>],
   parcelFamilyIndex |-> [k \in ParcelKeys |->
                            IF k = "1874:10" THEN <<"F2", "F1">> ELSE <<"F2">>]]

\* the Data object of the panel script: {} in every slot that loadAll has not
\* assigned from its resource
PanelData(files, loaded) ==
  [r \in DOMAIN files |-> IF r \in loaded THEN files[r] ELSE EmptyMap]

\* what the five resources of loadAllData hold: persons with their origin place,
\* parcel -> persons, origins (name, coordinates when hasCoords, parent handle
\* or "" for none), the optional origin -> parcels index (no entry for O2), and
\* the parcel features by key, each with the bounds of its shape (valid when
\* the feature has one)
MapFiles ==
  [persons |-> [p \in {"p1", "p2"} |->
                  [origin_place_handle |-> IF p = "p1" THEN "O1" ELSE "O2"]],
   parcelIndex |-> [k \in ParcelKeys |-> IF k = "1874:10" THEN <<"p1">> ELSE <<"p1", "p2">>],
   origins |-> [o \in OriginHandles |->
                  IF o = "O1"
                  THEN [name |-> "Posen", hasCoords |-> TRUE, lat |-> 10, lon |-> 10, parent |-> ""]
                  ELSE [name |-> "Zittau", hasCoords |-> TRUE, lat |-> 30, lon |-> 20, parent |-> ""]],
   originParcelIndex |-> [o \in {"O1"} |-> <<"1874:10">>],
   parcelsGeoJSON |-> [k \in ParcelKeys |->
                         IF k = "1874:10"
                         THEN [valid |-> TRUE, s |-> 400, w |-> 600, n |-> 500, e |-> 700]
                         ELSE [valid |-> TRUE, s |-> 500, w |-> 700, n |-> 600, e |-> 900]]]

\* the exported Data of data.js: every cache null until loadAllData assigns it
\* from its resource; the readers write (Data.x || {}), and no feature is drawn
\* from a null collection
MapData(files, loaded) ==
  [r \in DOMAIN files |-> IF r \in loaded THEN files[r] ELSE EmptyMap]

-----------------------------------------------------------------------------
(* The two Leaflet maps *)

\* An optional number is a set: {} for undefined or Infinity, {n} for n.
Min(ns) == CHOOSE n \in ns : \A m \in ns : n <= m
Max(ns) == CHOOSE n \in ns : \A m \in ns : m <= n

\* the maps init() creates: L.map(id) without a maxZoom option, the maxZoom
\* options of the tile layers added to each, and the zoom at which the bounds
\* asked for fill the container (it depends on the window)
Maps ==
  [mapC |-> [maxZoom |-> {}, tiles |-> {20, 19}, natural |-> 16],
   mapO |-> [maxZoom |-> {}, tiles |-> {20}, natural |-> 6]]

\* selection-based recentering: MAX_Z_ORIGINS, MAX_Z_PARCELS
MAX_Z_ORIGINS == 11
MAX_Z_PARCELS == 15

\* constants() of util.js
constants == [maxZOrigins |-> 10, maxZParcels |-> 14]

\* the smallest maxZoom of the tile layers on the map, if any
getTileLayerMaxZoom(map) == IF map.tiles = {} THEN {} ELSE {Min(map.tiles)}

\* a clamp that leaves the tile layers out
clampZoomNoTiles(map, requestedZoom, optMaxZoom) ==
  LET caps == requestedZoom \cup optMaxZoom \cup map.maxZoom
  IN IF caps = {} THEN {} ELSE {Min(caps)}

\* Math.min over the finite ones of requestedZoom, optMaxZoom,
\* map.options.maxZoom and getTileLayerMaxZoom(map); Math.min() is Infinity
clampZoom(map, requestedZoom, optMaxZoom) ==
  LET caps == requestedZoom \cup optMaxZoom \cup map.maxZoom \cup getTileLayerMaxZoom(map)
  IN IF caps = {} THEN {} ELSE {Min(caps)}

\* Leaflet's map.getMaxZoom(): options.maxZoom, else the largest maxZoom of the
\* layers, else Infinity
getMaxZoom(map) ==
  IF map.maxZoom # {} THEN map.maxZoom
  ELSE IF map.tiles # {} THEN {Max(map.tiles)} ELSE {}

\* L.latLngBounds(pts) for a non-empty set of points
latLngBounds(pts) ==
  [s |-> Min({p.lat : p \in pts}), w |-> Min({p.lon : p \in pts}),
   n |-> Max({p.lat : p \in pts}), e |-> Max({p.lon : p \in pts})]

\* the bounds that hold every one of a non-empty set of bounds
extend(bs) ==
  [s |-> Min({b.s : b \in bs}), w |-> Min({b.w : b \in bs}),
   n |-> Max({b.n : b \in bs}), e |-> Max({b.e : b \in bs})]

getCenter(b) == [lat |-> (b.s + b.n) \div 2, lon |-> (b.w + b.e) \div 2]

\* bounds.getSouthWest().equals(bounds.getNorthEast())
collapsed(b) == b.s = b.n /\ b.w = b.e

\* Leaflet's map.getBoundsZoom(b, false, padding): the zoom that fits, within
\* the map's zoom range; bounds without extent give the maximum
getBoundsZoom(map, b) ==
  IF collapsed(b) THEN getMaxZoom(map) ELSE {Min({map.natural} \cup getMaxZoom(map))}

-----------------------------------------------------------------------------
(* Values *)

\* JavaScript's null and undefined where the source holds a selection or a preview
null == [type |-> "null", id |-> "null"]
undefined == [type |-> "undefined", id |-> "undefined"]
Falsy(v) == v \in {null, undefined}

\* the text filters a user types
Filters == {"", "sch"}

\* the filter texts and the labels of the model, character by character
Chars ==
  "" :> <<>> @@
  "sch" :> <<"s", "c", "h">> @@
  "SCH" :> <<"S", "C", "H">> @@
  "sch " :> <<"s", "c", "h", " ">> @@
  " " :> <<" ">> @@
  "x" :> <<"x">> @@
  "1874:1" :> <<"1", "8", "7", "4", ":", "1">> @@
  "Schmidt" :> <<"S", "c", "h", "m", "i", "d", "t">> @@
  "abel" :> <<"a", "b", "e", "l">> @@
  "Fischer" :> <<"F", "i", "s", "c", "h", "e", "r">> @@
  "SCHULZ" :> <<"S", "C", "H", "U", "L", "Z">> @@
  "Posen" :> <<"P", "o", "s", "e", "n">> @@
  "Zittau" :> <<"Z", "i", "t", "t", "a", "u">> @@
  "1874:10" :> <<"1", "8", "7", "4", ":", "1", "0">> @@
  "1874:11" :> <<"1", "8", "7", "4", ":", "1", "1">>

\* s.toLowerCase(), on the capitals the strings of the model hold
toLowerCase(cs) ==
  LET lower == [c \in {"S", "C", "H", "U", "L", "Z", "F", "P"} |->
                  CASE c = "S" -> "s" [] c = "C" -> "c" [] c = "H" -> "h" [] c = "U" -> "u"
                    [] c = "L" -> "l" [] c = "Z" -> "z" [] c = "F" -> "f" [] c = "P" -> "p"]
  IN [i \in DOMAIN cs |-> IF cs[i] \in DOMAIN lower THEN lower[cs[i]] ELSE cs[i]]

RECURSIVE trim(_)
\* s.trim(): the spaces at both ends go
trim(cs) ==
  IF cs = <<>> THEN cs
  ELSE IF Head(cs) = " " THEN trim(Tail(cs))
  ELSE IF cs[Len(cs)] = " " THEN trim(SubSeq(cs, 1, Len(cs) - 1))
  ELSE cs

\* s.includes(q)
includes(cs, q) ==
  \E i \in 0..(Len(cs) - Len(q)) : SubSeq(cs, i + 1, i + Len(q)) = q

\* a filter that compares the label as it is written
matchCaseSensitive ==
  [label \in DOMAIN Chars, filter \in DOMAIN Chars |->
     LET q == toLowerCase(trim(Chars[filter]))
     IN q = <<>> \/ includes(Chars[label], q)]
\* the filter of currentCollection: q = (filter || '').trim().toLowerCase(); an
\* item stays when q is empty or label.toLowerCase().includes(q)
match ==
  [label \in DOMAIN Chars, filter \in DOMAIN Chars |->
     LET q == toLowerCase(trim(Chars[filter]))
     IN q = <<>> \/ includes(toLowerCase(Chars[label]), q)]

\* the panel Store's subscribers that other code may register
Subs == {"s1", "s2"}

\* the state object the panel Store starts with: the preview slot is spelled
\* "review", so the preview property itself starts out undefined
InitialState ==
  [tab |-> "families", filter |-> "", selection |-> null, followClicks |-> FALSE,
   autoSwitchTabs |-> FALSE, review |-> null, preview |-> undefined]

\* the whole mutable state as one value, so that calls compose; the logs start
\* empty at each callback. The highlight Store's two Set objects sit in a heap
\* (hl holds their addresses) for the length of the callback; hseen logs its
\* rounds of notification and views the view-setting calls its subscribers
\* made, in the callbacks that are watched
Cur ==
  [panel |-> panel, subs |-> subs, notes |-> <<>>, pdata |-> pdata, panelUp |-> panelUp,
   info |-> info, list |-> list, strip |-> strip, timers |-> timers,
   maps |-> Maps, hl |-> [activeOrigins |-> 1, activeParcels |-> 2],
   heap |-> <<hl.activeOrigins, hl.activeParcels>>, watch |-> FALSE, hseen |-> <<>>,
   views |-> <<>>,
   mdata |-> mdata, mapsUp |-> mapsUp, initErr |-> initErr, popup |-> popup,
   destroyed |-> destroyed,
   emitted |-> <<>>]

\* Cur for a callback whose highlight notifications and view calls are logged
Watched == [Cur EXCEPT !.watch = TRUE]

-----------------------------------------------------------------------------
(* The highlight Store (store.js) and the panel -> map bridge (layers.js) *)

RECURSIVE walkToUSA(_, _, _)
\* the loop of isDescendantOfUSA with current = origins[h]: "true" or "false"
\* as returned, "throw" when parentObj is undefined and its name is read,
\* "hang" when the loop does not end (fuel counts the steps left to tell)
walkToUSA(origins, h, fuel) ==
  LET parent == origins[h].parent
  IN IF parent = "" THEN "false"
     ELSE IF parent \notin DOMAIN origins THEN "throw"
     ELSE IF origins[parent].name = "USA" THEN "true"
     ELSE IF fuel = 0 THEN "hang"
     ELSE walkToUSA(origins, parent, fuel - 1)

\* isDescendantOfUSA(handle) of util.js
isDescendantOfUSA(origins, handle) ==
  IF handle \notin DOMAIN origins THEN "false"
  ELSE walkToUSA(origins, handle, Cardinality(DOMAIN origins))

\* the markers of the origins layer, once it is built: the origins with
\* coordinates that do not descend from USA
registry(S) ==
  LET origins == S.mdata.origins
  IN IF S.mapsUp
     THEN {h \in DOMAIN origins : origins[h].hasCoords /\ isDescendantOfUSA(origins, h) = "false"}
     ELSE {}

\* the polygons of the parcels layer
byKey(S) == DOMAIN S.mdata.parcelsGeoJSON

\* loadAllData(): Promise.all over the five fetches, of which only the one of
\* origin_parcel_index.json has a catch; Data is assigned after all resolved
loadAllData(S, files, failing) ==
  IF failing \ {"originParcelIndex"} # {}
  THEN [S EXCEPT !.initErr = "loadAllData"]
  ELSE [S EXCEPT !.mdata = MapData(files, DOMAIN files \ failing)]

\* buildOriginsLayer(map): the marker filter calls isDescendantOfUSA for every
\* origin with coordinates; what it throws leaves init() before the layer, its
\* subscriber and the recentering subscriber exist
buildOriginsLayer(S) ==
  LET origins == S.mdata.origins
      bad == {h \in DOMAIN origins : /\ origins[h].hasCoords
                                     /\ isDescendantOfUSA(origins, h) \in {"throw", "hang"}}
  IN IF bad = {} THEN [S EXCEPT !.mapsUp = TRUE]
     ELSE \* Object.entries(Data.origins) is filtered in the order of the file
          LET first == CHOOSE h \in bad : \A g \in bad : collation[h] <= collation[g]
          IN [S EXCEPT !.initErr = IF isDescendantOfUSA(origins, first) = "throw"
                                   THEN "buildOriginsLayer" ELSE "hang"]

RECURSIVE placeLineage(_, _, _)
\* placeLineage(handle, { stopTypes: ['Country'] }) of data.js from h on: the
\* labels p.name || h along the parent links, while (h && origins[h]); no
\* origin of the model has a type, so the loop never breaks on stopTypes. hang
\* tells that the loop does not end (fuel counts the origins left to visit
\* before one is met again)
placeLineage(origins, h, fuel) ==
  IF h = "" \/ h \notin DOMAIN origins THEN [hang |-> FALSE, labels |-> <<>>]
  ELSE IF fuel = 0 THEN [hang |-> TRUE, labels |-> <<>>]
  ELSE LET rest == placeLineage(origins, origins[h].parent, fuel - 1)
           label == IF origins[h].name = "" THEN h ELSE origins[h].name
       IN [hang |-> rest.hang, labels |-> IF rest.hang THEN <<>> ELSE <<label>> \o rest.labels]

\* the maps' init(): await loadAllData(), buildParcelsLayer (the polygons are
\* the features of Data), buildOriginsLayer, then the recentering subscriber
init(S, files, failing) ==
  LET S1 == loadAllData(S, files, failing)
  IN IF S1.initErr # "none" THEN S1 ELSE buildOriginsLayer(S1)

\* the Set objects the highlight Store's state points to, read through the
\* heap of the callback: state.activeOrigins and state.activeParcels
ActiveOrigins(S) == S.heap[S.hl.activeOrigins]
ActiveParcels(S) == S.heap[S.hl.activeParcels]

\* the subscribers init() leaves in the highlight Store, in the order of their
\* subscribe calls: the parcels layer, the origins layer, the recentering one;
\* a layer's destroy() calls its unsub()
HlSubs(S) ==
  SelectSeq(IF S.mapsUp THEN <<"parcelsLayer", "originsLayer", "recenter">>
            ELSE IF S.initErr = "buildOriginsLayer" THEN <<"parcelsLayer">>
            ELSE <<>>,
            LAMBDA sub : sub \notin S.destroyed)

\* boundsFromOriginHandles(set, registry): null ({}) without a marker
boundsFromOriginHandles(S, set) ==
  LET origins == S.mdata.origins
      latlngs == {[lat |-> origins[h].lat, lon |-> origins[h].lon] : h \in set \cap registry(S)}
  IN IF latlngs = {} THEN {} ELSE {latLngBounds(latlngs)}

\* boundsFromParcelKeys(set, byKey): null ({}) without a polygon of valid bounds
boundsFromParcelKeys(S, set) ==
  LET features == S.mdata.parcelsGeoJSON
      lbs == {[x \in {"s", "w", "n", "e"} |-> features[k][x]] :
                k \in {q \in set \cap byKey(S) : features[q].valid}}
  IN IF lbs = {} THEN {} ELSE {extend(lbs)}

\* fitToBoundsOrPoint(map, bounds, {padding, maxZoom}): setView at opts.maxZoom
\* when the bounds collapse to a point, else Leaflet's fitBounds, which takes
\* min(opts.maxZoom, getBoundsZoom(bounds))
fitToBoundsOrPoint(S, name, bounds, maxZoom) ==
  IF collapsed(bounds)
  THEN [map |-> name, call |-> "setView", center |-> getCenter(bounds), zoom |-> {maxZoom}]
  ELSE [map |-> name, call |-> "fitBounds", center |-> getCenter(bounds),
        zoom |-> {Min({maxZoom} \cup getBoundsZoom(S.maps[name], bounds))}]

\* the recentering subscriber: a call per map whose active set is not empty
\* and has a marker or polygon to take bounds from
recenter(S) ==
  LET bo == boundsFromOriginHandles(S, ActiveOrigins(S))
      bp == boundsFromParcelKeys(S, ActiveParcels(S))
  IN (IF bo # {} THEN <<fitToBoundsOrPoint(S, "mapO", CHOOSE b \in bo : TRUE, MAX_Z_ORIGINS)>> ELSE <<>>)
     \o (IF bp # {} THEN <<fitToBoundsOrPoint(S, "mapC", CHOOSE b \in bp : TRUE, MAX_Z_PARCELS)>> ELSE <<>>)

\* notify(): subs.forEach(fn => fn(state)); one round passes the same state
\* object to every subscriber: the two layers restyle from it, the recentering
\* subscriber moves the maps
notify(S) ==
  IF S.watch
  THEN [S EXCEPT !.hseen = Append(@, [subs |-> HlSubs(S), activeOrigins |-> ActiveOrigins(S),
                                      activeParcels |-> ActiveParcels(S)]),
                 !.views = IF S.mapsUp THEN @ \o recenter(S) ELSE @]
  ELSE S

\* a setter that replaces the set whatever merge says
NewSetReplacing(old, xs, merge) == SeqToSet(xs)

\* new Set(xs), or new Set([...old, ...xs]) with merge
NewSet(old, xs, merge) == IF merge THEN old \cup SeqToSet(xs) ELSE SeqToSet(xs)

\* Store.setActiveOrigins(handles, {merge}): a new Set object, then notify()
setActiveOrigins(S, handles, merge) ==
  notify([S EXCEPT !.heap = Append(@, NewSet(ActiveOrigins(S), handles, merge)),
                   !.hl.activeOrigins = Len(S.heap) + 1])

\* Store.setActiveParcels(keys, {merge})
setActiveParcels(S, keys, merge) ==
  notify([S EXCEPT !.heap = Append(@, NewSet(ActiveParcels(S), keys, merge)),
                   !.hl.activeParcels = Len(S.heap) + 1])

\* a clear that forgets the parcels only
Store_clearParcelsOnly(S) == notify([S EXCEPT !.heap[S.hl.activeParcels] = {}])

\* Store.clear(): both Set objects are emptied where they are, then notify()
Store_clear(S) ==
  notify([S EXCEPT !.heap = [a \in DOMAIN S.heap |->
                               IF a \in {S.hl.activeParcels, S.hl.activeOrigins}
                               THEN {} ELSE S.heap[a]]])

\* a listener that adds to the highlight sets instead of replacing them
onUiHighlightMerging(S, origins, parcels) ==
  setActiveParcels(setActiveOrigins(S, origins, TRUE), parcels, TRUE)

\* window.addEventListener('ui:highlight', ...)
onUiHighlight(S, origins, parcels) ==
  setActiveParcels(setActiveOrigins(S, origins, FALSE), parcels, FALSE)

\* getOriginsForParcel of data.js
getOriginsForParcel(S, key) ==
  LET D == S.mdata
      ids == Lookup(D.parcelIndex, key)
      handles == [i \in DOMAIN ids |->
                    IF ids[i] \in DOMAIN D.persons
                    THEN D.persons[ids[i]].origin_place_handle ELSE ""]
  IN Dedupe(SelectSeq(handles, LAMBDA h : h # ""))

\* map.setView(center, zoom) on the named map
setView(S, name, center, zoom) ==
  [S EXCEPT !.views = Append(@, [map |-> name, call |-> "setView", center |-> center,
                                 zoom |-> zoom])]

\* the points of ORIGINS_API.fit: L.latLng(p.lat, p.lon) for the handles that
\* Data.origins holds; L.latLng gives undefined or null for coordinates that
\* are missing, and filter(Boolean) drops those with the unknown handles
fitPoints(D, handles) ==
  LET known == SelectSeq(handles, LAMBDA h : h \in DOMAIN D.origins /\ D.origins[h].hasCoords)
  IN [i \in DOMAIN known |-> [lat |-> D.origins[known[i]].lat, lon |-> D.origins[known[i]].lon]]

\* a fit that falls back to a default view when no handle resolves
originsFitWithFallback(S, handles, optMaxZoom) ==
  LET map == S.maps.mapO
      pts == fitPoints(S.mdata, handles)
  IN IF pts = <<>> THEN setView(S, "mapO", [lat |-> 44, lon |-> -88], {5})
     ELSE IF Len(pts) = 1
     THEN setView(S, "mapO", pts[1], clampZoom(map, getMaxZoom(map), optMaxZoom))
     ELSE LET b == latLngBounds(SeqToSet(pts))
          IN setView(S, "mapO", getCenter(b), clampZoom(map, getBoundsZoom(map, b), optMaxZoom))

\* a fit that hands several points to map.fitBounds(bounds, {padding})
originsFitByBounds(S, handles, optMaxZoom) ==
  LET map == S.maps.mapO
      pts == fitPoints(S.mdata, handles)
  IN IF pts = <<>> THEN S
     ELSE IF Len(pts) = 1
     THEN setView(S, "mapO", pts[1], clampZoom(map, getMaxZoom(map), optMaxZoom))
     ELSE LET b == latLngBounds(SeqToSet(pts))
          IN [S EXCEPT !.views = Append(@, [map |-> "mapO", call |-> "fitBounds",
                                             center |-> getCenter(b),
                                             zoom |-> getBoundsZoom(map, b)])]

\* ORIGINS_API.fit(handles, {maxZoom})
originsFit(S, handles, optMaxZoom) ==
  LET map == S.maps.mapO
      pts == fitPoints(S.mdata, handles)
  IN IF pts = <<>> THEN S
     ELSE IF Len(pts) = 1
     THEN setView(S, "mapO", pts[1], clampZoom(map, getMaxZoom(map), optMaxZoom))
     ELSE LET b == latLngBounds(SeqToSet(pts))
          IN setView(S, "mapO", getCenter(b), clampZoom(map, getBoundsZoom(map, b), optMaxZoom))

\* PARCELS_API.fit(keys, {maxZoom}): the bounds of the polygons found, padded
parcelsFit(S, keys, optMaxZoom) ==
  LET map == S.maps.mapC
      features == S.mdata.parcelsGeoJSON
      lbs == {[x \in {"s", "w", "n", "e"} |-> features[k][x]] :
                k \in {q \in SeqToSet(keys) \cap byKey(S) : features[q].valid}}
  IN IF lbs = {} THEN S
     ELSE LET b == extend(lbs)
              \* bounds.pad(0.02): each side moves out by 2% of the extent
              padded == [s |-> b.s - (b.n - b.s) \div 50, w |-> b.w - (b.e - b.w) \div 50,
                         n |-> b.n + (b.n - b.s) \div 50, e |-> b.e + (b.e - b.w) \div 50]
          IN setView(S, "mapC", getCenter(padded),
                     clampZoom(map, getBoundsZoom(map, padded), optMaxZoom))

\* the handles and keys the ui:focus listener works out for d.type and d.id;
\* the Data of data.js has no familyOriginIndex and no familyParcelIndex, so
\* (Data.familyOriginIndex || {})[d.id] || [] is [] for every family
focusTargets(S, type, id) ==
  [origins |-> CASE type = "origin" -> <<id>>
                 [] type = "parcel" -> getOriginsForParcel(S, id)
                 [] OTHER -> <<>>,
   parcels |-> CASE type = "origin" -> Lookup(S.mdata.originParcelIndex, id)
                 [] type = "parcel" -> <<id>>
                 [] OTHER -> <<>>]

\* a focus listener that answers with a click event of its own
onUiFocusClicksBack(S, type, id) ==
  [S EXCEPT !.emitted = Append(@, [name |-> "map:click:" \o type, id |-> id, commit |-> FALSE])]
\* window.addEventListener('ui:focus', ...): it moves the two cameras, through
\* the layer APIs that exist
onUiFocus(S, type, id) ==
  IF ~S.watch THEN S
  ELSE
    LET origins == focusTargets(S, type, id).origins
        parcels == focusTargets(S, type, id).parcels
        S1 == IF S.mapsUp /\ origins # <<>>
              THEN originsFit(S, origins, {constants.maxZOrigins}) ELSE S
    IN IF (S.mapsUp \/ S.initErr = "buildOriginsLayer") /\ parcels # <<>>
       THEN parcelsFit(S1, parcels, {constants.maxZParcels}) ELSE S1

-----------------------------------------------------------------------------
(* The panel script *)

\* a merge that forgets what the state had: state = { ...patch }
MergeDropsSiblings(state, patch) ==
  [f \in DOMAIN state |-> IF f \in DOMAIN patch THEN patch[f] ELSE InitialState[f]]

\* { ...state, ...patch }
Merge(state, patch) ==
  [f \in DOMAIN state |-> IF f \in DOMAIN patch THEN patch[f] ELSE state[f]]

\* a set that calls the subscribers with the state it found
Store_setTellsOld(S, patch) ==
  [S EXCEPT !.panel = Merge(@, patch),
            !.notes = @ \o [i \in DOMAIN S.subs |-> [sub |-> S.subs[i], state |-> S.panel]]]

RECURSIVE Store_set(_, _)
RECURSIVE forEachSub(_, _)

\* fn(state) for a subscriber fn: the call is logged with the state variable's
\* value at the time of the call; the subscriber "r" answers a non-empty filter
\* by calling Store.set({filter: ''}) from inside the notification, the others
\* only read
callSub(S, fn) ==
  LET S1 == [S EXCEPT !.notes = Append(@, [sub |-> fn, state |-> S.panel])]
  IN IF fn = "r" /\ S.panel.filter # "" THEN Store_set(S1, [filter |-> ""]) ELSE S1

\* subs.forEach(fn => fn(state)), from the i-th subscriber on
forEachSub(S, i) ==
  IF i > Len(S.subs) THEN S ELSE forEachSub(callSub(S, S.subs[i]), i + 1)

\* Store.set(patch): merge, then call every subscriber with the new state
Store_set(S, patch) == forEachSub([S EXCEPT !.panel = Merge(@, patch)], 1)

\* Store.subscribe(fn): subs.add(fn); a Set keeps one entry per function
Store_subscribe(S, fn) ==
  IF fn \in SeqToSet(S.subs) THEN S ELSE [S EXCEPT !.subs = Append(@, fn)]

\* an unsubscribe that empties the registry: subs.clear()
Store_unsubscribeAll(S, fn) == [S EXCEPT !.subs = <<>>]

\* the function subscribe returned: subs.delete(fn)
Store_unsubscribe(S, fn) == [S EXCEPT !.subs = SelectSeq(@, LAMBDA g : g # fn)]

\* an emitHighlight that sends the origins and no parcels
emitHighlightOriginsOnly(S, origins, parcels) ==
  onUiHighlight(
    [S EXCEPT !.emitted = Append(@, [name |-> "ui:highlight", origins |-> origins,
                                      parcels |-> <<>>, source |-> "panel"])],
    origins, <<>>)

emitHighlight(S, origins, parcels) ==
  onUiHighlight(
    [S EXCEPT !.emitted = Append(@, [name |-> "ui:highlight", origins |-> origins,
                                      parcels |-> parcels, source |-> "panel"])],
    origins, parcels)

emitFocus(S, type, id) ==
  onUiFocus([S EXCEPT !.emitted = Append(@, [name |-> "ui:focus", type |-> type, id |-> id])],
            type, id)

\* what the info panel shows: the heading's entity and the three tag lists
\* the family the info panel shows for sel.id: Data.families[sel.id], or
\* { id: sel.id, label: sel.id } when the table has no such entry
famOf(D, id) == IF id \in DOMAIN D.families THEN D.families[id] ELSE [id |-> id, label |-> id]

renderInfo(S) ==
  LET sel == S.panel.selection
      D == S.pdata
  IN
  IF Falsy(sel) THEN [S EXCEPT !.info =
          [type |-> "none", id |-> "none", label |-> "", families |-> <<>>, origins |-> <<>>,
           parcels |-> <<>>]]
  ELSE IF sel.type = "family" THEN
    LET famId == famOf(D, sel.id).id
        label == famOf(D, sel.id).label
        origins == Lookup(D.familyOriginIndex, famId)
        parcels == Lookup(D.familyParcelIndex, famId)
        S1 == [S EXCEPT !.info = [type |-> "family", id |-> famId, label |-> label,
                                  families |-> <<>>, origins |-> origins, parcels |-> parcels]]
    IN emitFocus(emitHighlight(S1, origins, parcels), "family", famId)
  ELSE IF sel.type = "origin" THEN
    LET families == SortByAlpha(Lookup(D.originFamilyIndex, sel.id))
        parcels == SortByAlpha(FlatMap(families, D.familyParcelIndex))
        name == IF sel.id \in DOMAIN D.origins THEN D.origins[sel.id].name ELSE sel.id
        S1 == [S EXCEPT !.info = [type |-> "origin", id |-> sel.id, label |-> name,
                                  families |-> families, origins |-> <<>>,
                                  parcels |-> Dedupe(parcels)]]
    IN emitFocus(emitHighlight(S1, <<sel.id>>, Dedupe(parcels)), "origin", sel.id)
  ELSE IF sel.type = "parcel" THEN
    LET families == SortByAlpha(Lookup(D.parcelFamilyIndex, sel.id))
        origins == Dedupe(FlatMap(families, D.familyOriginIndex))
        S1 == [S EXCEPT !.info = [type |-> "parcel", id |-> sel.id, label |-> sel.id,
                                  families |-> families, origins |-> origins,
                                  parcels |-> <<>>]]
    IN emitFocus(emitHighlight(S1, origins, <<sel.id>>), "parcel", sel.id)
  ELSE S

\* a selectFamily that ignores an id the families table does not hold
selectFamilyKnownOnly(S, fid) ==
  IF fid \in DOMAIN S.pdata.families
  THEN renderInfo(Store_set(S, [selection |-> [type |-> "family", id |-> fid]]))
  ELSE S

selectFamily(S, fid) == renderInfo(Store_set(S, [selection |-> [type |-> "family", id |-> fid]]))
selectOrigin(S, oph) == renderInfo(Store_set(S, [selection |-> [type |-> "origin", id |-> oph]]))
selectParcel(S, pk) == renderInfo(Store_set(S, [selection |-> [type |-> "parcel", id |-> pk]]))

\* the rows of the browser list: ids by label order, filtered on the label
RECURSIVE InsertRow(_, _)
InsertRow(sorted, row) ==
  IF sorted = <<>> THEN <<row>>
  ELSE IF byAlphaLeq(Head(sorted).label, row.label)
       THEN <<Head(sorted)>> \o InsertRow(Tail(sorted), row)
  ELSE <<row>> \o sorted

RECURSIVE SortRows(_)
\* the rows of a set of ids in label order; Object.values/entries/keys enumerate
\* string keys in insertion order, here the order of the id strings
SortRows(rows) ==
  IF rows = {} THEN <<>>
  ELSE LET last == CHOOSE r \in rows : \A q \in rows : byAlphaLeq(q.id, r.id)
       IN InsertRow(SortRows(rows \ {last}), last)

currentCollection(S) ==
  LET tab == S.panel.tab
      D == S.pdata
      table == CASE tab = "families" -> D.families [] tab = "origins" -> D.origins
                 [] tab = "parcels" -> D.parcelFamilyIndex
      labelOf(id) == CASE tab = "families" -> D.families[id].label
                       [] tab = "origins" -> D.origins[id].name
                       [] tab = "parcels" -> id
      items == SortRows({[id |-> i, label |-> labelOf(i)] : i \in DOMAIN table})
  IN SelectSeq(items, LAMBDA x : match[x.label, S.panel.filter])

renderBrowserList(S) ==
  LET items == currentCollection(S)
  IN [S EXCEPT !.list = [i \in DOMAIN items |-> items[i].id]]

activateTab(S, tab) ==
  renderBrowserList(Store_set(Store_set(S, [tab |-> tab]), [filter |-> ""]))

targetTabOf(type) ==
  IF type = "family" THEN "families" ELSE IF type = "origin" THEN "origins" ELSE "parcels"

\* the tab policy of commitSelection without the force flag
shouldSwitchAutoOnly(S, type, forceTabSwitch) ==
  S.panel.autoSwitchTabs /\ S.panel.tab # targetTabOf(type)

shouldSwitch(S, type, forceTabSwitch) ==
  forceTabSwitch \/ (S.panel.autoSwitchTabs /\ S.panel.tab # targetTabOf(type))

commitSelection(S, type, id, forceTabSwitch) ==
  LET targetTab == targetTabOf(type)
      switch == shouldSwitch(S, type, forceTabSwitch)
      S1 == renderInfo(Store_set(S, [selection |-> [type |-> type, id |-> id]]))
  IN \* the pulse is a class on the tab button and a setTimeout(..., 1200)
     IF switch
     THEN [activateTab(S1, targetTab) EXCEPT !.timers = @ + 1]
     ELSE S1

\* renderPreview(): hide the strip when there is no preview, else bind both
\* buttons to the preview p read now
renderPreview(S) ==
  LET p == S.panel.preview
  IN IF Falsy(p) THEN [S EXCEPT !.strip.hidden = TRUE]
     ELSE [S EXCEPT !.strip = [hidden |-> FALSE, open |-> p, dismiss |-> TRUE]]

\* an open handler that leaves the tab to the autoSwitchTabs flag
previewOpenClickUnforced(S, p) ==
  renderPreview(Store_set(commitSelection(S, p.type, p.id, FALSE), [preview |-> null]))

\* previewOpen.onclick, bound to p
previewOpenClick(S, p) ==
  renderPreview(Store_set(commitSelection(S, p.type, p.id, TRUE), [preview |-> null]))

\* a dismiss handler that drops the selection with the preview
previewDismissClickClearing(S) ==
  renderPreview(Store_set(Store_clear(S), [preview |-> null, selection |-> null]))

\* previewDismiss.onclick
previewDismissClick(S) == renderPreview(Store_set(S, [preview |-> null]))

\* the panel's listeners of map:click:origin / :parcel / :family; detail.commit
\* is not read
\* a listener that selects only while followClicks is on
onMapClickOriginFollowing(S, handle) ==
  IF handle # "" /\ S.panel.followClicks THEN selectOrigin(S, handle) ELSE S
onMapClickOrigin(S, handle) == IF handle # "" THEN selectOrigin(S, handle) ELSE S
\* a listener that selects whatever it is given
onMapClickParcelUnguarded(S, key) == selectParcel(S, key)
onMapClickParcel(S, key) == IF key # "" THEN selectParcel(S, key) ELSE S
onMapClickFamily(S, fid) == IF fid # "" THEN selectFamily(S, fid) ELSE S

-----------------------------------------------------------------------------
(* The map layers (layers.js) *)

\* a Leaflet click event: whether it carries originalEvent, and the modifier
\* keys that one reports as held (none, each key alone, and alt with shift)
Gestures ==
  {[oe |-> FALSE, keys |-> {}]} \cup
  {[oe |-> TRUE, keys |-> m] : m \in {{}, {"alt", "shift"}} \cup {{k} : k \in
          {"shift", "meta", "ctrl", "alt"}}}

\* a gesture that counts shift and meta only
isCommitGestureNoCtrl(ev) == ev.oe /\ ({"shift", "meta"} \cap ev.keys # {})

isCommitGesture(ev) == ev.oe /\ ({"shift", "meta", "ctrl"} \cap ev.keys # {})

emit(S, name, key, commit) ==
  LET S1 == [S EXCEPT !.emitted = Append(@, [name |-> name, id |-> key, commit |-> commit])]
  IN CASE name = "map:click:origin" -> onMapClickOrigin(S1, key)
       [] name = "map:click:parcel" -> onMapClickParcel(S1, key)
       [] name = "map:click:family" -> onMapClickFamily(S1, key)

\* highlightOrigin(handle): both setters, then mk.openPopup() when the registry
\* has a marker; popupopen wires the popup's Open details button
highlightOrigin(S, handle) ==
  LET S1 == setActiveParcels(setActiveOrigins(S, <<handle>>, FALSE),
                             Lookup(S.mdata.originParcelIndex, handle), FALSE)
  IN IF handle \in registry(S1) THEN [S1 EXCEPT !.popup.o = handle, !.popup.oWired = TRUE]
     ELSE S1

emitOriginClick(S, handle, commit) == emit(S, "map:click:origin", handle, commit)

onOriginClick(S, handle, ev) ==
  emitOriginClick(highlightOrigin(S, handle), handle, isCommitGesture(ev))

\* highlightParcel(key): both setters, then lyr.openPopup() when byKey has the
\* polygon
highlightParcel(S, key) ==
  LET S1 == setActiveOrigins(setActiveParcels(S, <<key>>, FALSE),
                             getOriginsForParcel(S, key), FALSE)
  IN IF key \in byKey(S1) THEN [S1 EXCEPT !.popup.c = key, !.popup.cWired = TRUE] ELSE S1

emitParcelClick(S, key, commit) == emit(S, "map:click:parcel", key, commit)

onParcelClick(S, key, ev) ==
  emitParcelClick(highlightParcel(S, key), key, isCommitGesture(ev))

-----------------------------------------------------------------------------
(* The state after the scripts have been evaluated, both loads pending *)

Blank ==
  [type |-> "blank", id |-> "blank", label |-> "", families |-> <<>>, origins |-> <<>>,
   parcels |-> <<>>]

Init ==
  /\ panel = InitialState
  /\ subs = <<>>
  /\ notes = <<>>
  /\ pdata = PanelData(PanelFiles, {})
  /\ panelUp = FALSE
  /\ info = Blank
  /\ list = <<>>
  /\ strip = [hidden |-> TRUE, open |-> undefined, dismiss |-> FALSE]
  /\ timers = 0
  /\ hl = [activeOrigins |-> {}, activeParcels |-> {}]
  /\ mdata = MapData(MapFiles, {})
  /\ mapsUp = FALSE
  /\ initErr = "none"
  /\ popup = [o |-> "none", oWired |-> FALSE, c |-> "none", cWired |-> FALSE]
  /\ destroyed = {}
  /\ emitted = <<>>
  /\ lastOp = [op |-> "load"]

\* the callback op has run from Cur to S; a frozen page runs no callback
Done(S, op) ==
  /\ initErr # "hang"
  /\ panel' = S.panel
  /\ subs' = S.subs
  /\ notes' = S.notes
  /\ pdata' = S.pdata
  /\ panelUp' = S.panelUp
  /\ info' = S.info
  /\ list' = S.list
  /\ strip' = S.strip
  /\ timers' = S.timers
  /\ hl' = [activeOrigins |-> ActiveOrigins(S), activeParcels |-> ActiveParcels(S)]
  /\ mdata' = S.mdata
  /\ mapsUp' = S.mapsUp
  /\ initErr' = S.initErr
  /\ popup' = S.popup
  /\ destroyed' = S.destroyed
  /\ emitted' = S.emitted
  /\ lastOp' = op

-----------------------------------------------------------------------------
(* The callbacks of the running page *)

\* the panel's init(): loadAll() resolves, then initBrowser() and renderInfo()
PanelInit ==
  /\ ~panelUp
  /\ Done(renderInfo(activateTab([Cur EXCEPT !.pdata = PanelData(PanelFiles, DOMAIN PanelFiles),
                                       !.panelUp = TRUE],
                                 panel.tab)),
          [op |-> "panelInit"])

\* the maps' init(): loadAllData() resolves, then both layers are built
MapsInit ==
  /\ ~mapsUp
  /\ initErr = "none"
  /\ Done(init(Cur, MapFiles, {}), [op |-> "mapsInit"])

TabClick ==
  \E t \in Tabs :
    /\ panelUp
    /\ Done(activateTab(Cur, t), [op |-> "tabClick", tab |-> t])

FilterInput ==
  \E q \in Filters :
    /\ panelUp
    /\ Done(renderBrowserList(Store_set(Cur, [filter |-> q])), [op |-> "filterInput", q |-> q])

ToggleFollow ==
  Done(Store_set(Cur, [followClicks |-> ~panel.followClicks]), [op |-> "toggleFollow"])

ToggleAuto ==
  Done(Store_set(Cur, [autoSwitchTabs |-> ~panel.autoSwitchTabs]), [op |-> "toggleAuto"])

\* a row of the browser list is clicked; the handler reads the tab now
ListClick ==
  \E i \in DOMAIN list :
    LET tab == panel.tab
        type == IF tab = "families" THEN "family" ELSE IF tab = "origins" THEN "origin" ELSE "parcel"
        S == IF tab = "families" THEN selectFamily(Cur, list[i])
             ELSE IF tab = "origins" THEN selectOrigin(Cur, list[i])
             ELSE selectParcel(Cur, list[i])
    IN Done(S, [op |-> "listClick", type |-> type, id |-> list[i]])

\* a tag button of the info panel is clicked
TagClick ==
  \/ \E i \in DOMAIN info.families :
       Done(selectFamily(Cur, info.families[i]),
            [op |-> "tagClick", type |-> "family", id |-> info.families[i]])
  \/ \E i \in DOMAIN info.origins :
       Done(selectOrigin(Cur, info.origins[i]),
            [op |-> "tagClick", type |-> "origin", id |-> info.origins[i]])
  \/ \E i \in DOMAIN info.parcels :
       Done(selectParcel(Cur, info.parcels[i]),
            [op |-> "tagClick", type |-> "parcel", id |-> info.parcels[i]])

\* a marker of the origins layer is clicked
OriginMarkerClick ==
  \E h \in registry(Cur), ev \in Gestures :
    Done(onOriginClick(Cur, h, ev),
         [op |-> "mapClick", type |-> "origin", id |-> h, via |-> "marker", ev |-> ev])

\* the Open details button of the open origin popup is clicked: the click
\* listener popupopen put on .open-details[data-origin], once
OriginOpenDetails ==
  /\ popup.o # "none"
  /\ popup.oWired
  /\ Done(emitOriginClick([Cur EXCEPT !.popup.oWired = FALSE], popup.o, TRUE),
          [op |-> "mapClick", type |-> "origin", id |-> popup.o, via |-> "button"])

\* a polygon of the parcels layer is clicked
ParcelClick ==
  \E k \in byKey(Cur), ev \in Gestures :
    Done(onParcelClick(Cur, k, ev),
         [op |-> "mapClick", type |-> "parcel", id |-> k, via |-> "polygon", ev |-> ev])

\* the Open details button of the open parcel popup is clicked: the click
\* listener popupopen put on .open-details[data-parcel], once
ParcelOpenDetails ==
  /\ popup.c # "none"
  /\ popup.cWired
  /\ Done(emitParcelClick([Cur EXCEPT !.popup.cWired = FALSE], popup.c, TRUE),
          [op |-> "mapClick", type |-> "parcel", id |-> popup.c, via |-> "button"])

\* a Clear selection button that empties the panel's selection as well
ClearSelDropsSelection ==
  LET S == Store_set(Store_clear(Watched), [selection |-> null])
  IN Done(S, [op |-> "clearSel", notified |-> [i \in DOMAIN S.hseen |-> S.hseen[i].subs],
              views |-> S.views])
\* the Clear selection button
ClearSel ==
  LET S == Store_clear(Watched)
  IN Done(S, [op |-> "clearSel", notified |-> [i \in DOMAIN S.hseen |-> S.hseen[i].subs],
              views |-> S.views])

Next ==
  \/ PanelInit
  \/ MapsInit
  \/ TabClick
  \/ FilterInput
  \/ ToggleFollow
  \/ ToggleAuto
  \/ ListClick
  \/ TagClick
  \/ OriginMarkerClick
  \/ OriginOpenDetails
  \/ ParcelClick
  \/ ParcelOpenDetails
  \/ ClearSel

Spec == Init /\ [][Next]_vars

-----------------------------------------------------------------------------
(* The panel script's functions called directly.  On the running page nothing  *)
(* calls commitSelection or renderPreview, nothing writes a preview and nothing *)
(* subscribes to the panel Store, so Spec never reaches their code: the        *)
(* specifications below add the calls themselves to the panel's own callbacks. *)

\* commitSelection(type, id, { forceTabSwitch })
CallCommitSelection ==
  \E sel \in
          UNION {{[type |-> k, id |-> i] : i \in IdsOf(k)} : k \in Kinds}, force \in BOOLEAN :
    /\ shouldSwitch(Cur, sel.type, force) => timers < MaxTimers
    /\ Done(commitSelection(Cur, sel.type, sel.id, force),
            [op |-> "commitSelection", type |-> sel.type, id |-> sel.id, force |-> force])

\* a timeout that goes back to the families tab
PulseTimeoutActivatesTab ==
  /\ timers > 0
  /\ Done(activateTab([Cur EXCEPT !.timers = @ - 1], "families"), [op |-> "pulseTimeout"])
\* a tab-pulse timeout fires: it removes the class tab-pulse
PulseTimeout ==
  /\ timers > 0
  /\ Done([Cur EXCEPT !.timers = @ - 1], [op |-> "pulseTimeout"])

\* Store.set({ preview: p }); renderPreview(): the two calls the strip's own
\* buttons make, with a preview in place of null
\* the previews a caller stores: one of each kind, labelled as the panel labels it
ShowPreview ==
  \E p \in
          {[type |-> "family", id |-> "F1", label |-> "Schmidt"],
           [type |-> "origin", id |-> "O2", label |-> "Zittau"],
           [type |-> "parcel", id |-> "1874:10", label |-> "1874:10"]} :
    Done(renderPreview(Store_set(Cur, [preview |-> p])), [op |-> "showPreview", p |-> p])

\* the Open details button of the preview strip, once renderPreview has bound it
PreviewOpenClick ==
  /\ ~Falsy(strip.open)
  /\ timers < MaxTimers
  /\ Done(previewOpenClick(Cur, strip.open),
          [op |-> "previewOpen", p |-> strip.open, pending |-> panel.preview,
           tabBefore |-> panel.tab])

\* the dismiss button of the preview strip, once renderPreview has bound it
PreviewDismissClick ==
  /\ strip.dismiss
  /\ Done(previewDismissClick(Cur), [op |-> "previewDismiss", pending |-> panel.preview])

\* Store.subscribe(fn) for the one observer "s1"
CallSubscribeOne ==
  /\ subs = <<>>
  /\ Done(Store_subscribe(Cur, "s1"), [op |-> "subscribe", fn |-> "s1"])

\* the panel's own callbacks, with the Clear selection button of the map page
PanelNext ==
  \/ PanelInit
  \/ TabClick
  \/ FilterInput
  \/ ToggleAuto
  \/ ListClick
  \/ TagClick

NextCommit ==
  \/ PanelNext
  \/ CallCommitSelection
  \/ PulseTimeout

SpecCommit == Init /\ [][NextCommit]_vars

NextPreview ==
  \/ PanelNext
  \/ ClearSel
  \/ CallSubscribeOne
  \/ ShowPreview
  \/ PreviewOpenClick
  \/ PreviewDismissClick
  \/ PulseTimeout

SpecPreview == Init /\ [][NextPreview]_vars

\* Store.set(patch)
\* the patches a caller passes to Store.set: none, one or two fields
CallStoreSet ==
  \E patch \in
          {EmptyMap} \cup {[tab |-> t] : t \in Tabs} \cup {[filter |-> q] : q \in Filters}
          \cup {[selection |-> x] : x \in {null, [type |-> "family", id |-> "F1"],
                                                 [type |-> "origin", id |-> "O2"]}}
          \cup {[followClicks |-> b] : b \in BOOLEAN} \cup {[autoSwitchTabs |-> b] : b \in BOOLEAN}
          \cup {[preview |-> x] : x \in {null, [type |-> "family", id |-> "F1", label |-> "Schmidt"]}}
          \cup {[tab |-> t, filter |-> "sch"] : t \in Tabs} :
    Done(Store_set(Cur, patch), [op |-> "set", patch |-> patch, before |-> panel])

\* Store.subscribe(fn)
CallSubscribe ==
  \E fn \in Subs :
    /\ fn \notin SeqToSet(subs)
    /\ Done(Store_subscribe(Cur, fn), [op |-> "subscribe", fn |-> fn])

\* the unsubscribe function subscribe(fn) returned
CallUnsubscribe ==
  \E fn \in Subs :
    /\ fn \in SeqToSet(subs)
    /\ Done(Store_unsubscribe(Cur, fn), [op |-> "unsubscribe", fn |-> fn])

\* two calls of Store.set in one callback
CallStoreSetTwice ==
  \E pair \in
          {<<[tab |-> "origins"], [filter |-> "sch"]>>,
           <<[filter |-> "sch"], [filter |-> ""]>>,
           <<[selection |-> [type |-> "family", id |-> "F1"]], [selection |-> null]>>,
           <<[tab |-> "parcels"], [tab |-> "parcels"]>>,
           <<EmptyMap, [preview |-> [type |-> "family", id |-> "F1", label |-> "Schmidt"]]>>} :
    Done(Store_set(Store_set(Cur, pair[1]), pair[2]),
         [op |-> "setTwice", patches |-> pair, before |-> panel])

NextStore ==
  \/ CallStoreSet
  \/ CallStoreSetTwice
  \/ CallSubscribe
  \/ CallUnsubscribe

SpecStore == Init /\ [][NextStore]_vars

\* the panel Store under a subscriber that writes to it while it is notified
Reactors == {"r"}

CallSubscribeAny ==
  \E fn \in Subs \cup Reactors :
    /\ fn \notin SeqToSet(subs)
    /\ Done(Store_subscribe(Cur, fn), [op |-> "subscribe", fn |-> fn])

CallUnsubscribeAny ==
  \E fn \in Subs \cup Reactors :
    /\ fn \in SeqToSet(subs)
    /\ Done(Store_unsubscribe(Cur, fn), [op |-> "unsubscribe", fn |-> fn])

NextReentrant ==
  \/ CallStoreSet
  \/ CallSubscribeAny
  \/ CallUnsubscribeAny

SpecReentrant == Init /\ [][NextReentrant]_vars

\* the arrays a caller passes to the highlight Store's setters: none, one or
\* two entries, an entry twice
HandleLists == {<<>>, <<"O1">>, <<"O2">>, <<"O1", "O2">>, <<"O2", "O1">>, <<"O1", "O1">>}
KeyLists ==
  {<<>>, <<"1874:10">>, <<"1874:11">>, <<"1874:10", "1874:11">>, <<"1874:11", "1874:10">>,
   <<"1874:11", "1874:11">>}

\* what a caller that kept the state's two Set objects from before the call
\* (addresses 1 and 2) finds afterwards, with what the subscribers were passed
\* and the view-setting calls they made
HlObserved(S, name, args) ==
  [op |-> name, args |-> args, before |-> hl,
   heldOrigins |-> S.heap[1], heldParcels |-> S.heap[2],
   sameOrigins |-> S.hl.activeOrigins = 1, sameParcels |-> S.hl.activeParcels = 2,
   seen |-> S.hseen, views |-> S.views]

\* Store.setActiveOrigins(handles, {merge})
CallSetActiveOrigins ==
  \E handles \in HandleLists, merge \in BOOLEAN :
    LET S == setActiveOrigins(Watched, handles, merge)
    IN Done(S, HlObserved(S, "setActiveOrigins", [list |-> handles, merge |-> merge]))

\* Store.setActiveParcels(keys, {merge})
CallSetActiveParcels ==
  \E keys \in KeyLists, merge \in BOOLEAN :
    LET S == setActiveParcels(Watched, keys, merge)
    IN Done(S, HlObserved(S, "setActiveParcels", [list |-> keys, merge |-> merge]))

\* Store.clear()
CallClear ==
  LET S == Store_clear(Watched)
  IN Done(S, HlObserved(S, "clear", <<>>))

\* window.dispatchEvent(new CustomEvent('ui:highlight', {detail: {origins, parcels}}))
DispatchUiHighlight ==
  \E origins \in HandleLists, parcels \in KeyLists :
    LET S == onUiHighlight(Watched, origins, parcels)
    IN Done(S, HlObserved(S, "uiHighlight", [origins |-> origins, parcels |-> parcels]))

NextHl ==
  \/ MapsInit
  \/ CallSetActiveOrigins
  \/ CallSetActiveParcels
  \/ CallClear
  \/ DispatchUiHighlight

SpecHl == Init /\ [][NextHl]_vars

\* the panel's init() when loadAll() has fetched one of them
\* what the six resources may hold instead: an index list that names an entry
\* twice, in each of the four indexes, and two families with one label
PanelInitAny ==
  /\ ~panelUp
  /\ \E files \in
          {[PanelFiles EXCEPT !.familyOriginIndex["F1"] = fo, !.originFamilyIndex["O1"] = of,
                              !.familyParcelIndex["F1"] = fp, !.parcelFamilyIndex["1874:10"] = pf,
                              !.families["F2"].label = lb] :
             fo \in {<<"O1">>, <<"O1", "O1">>},
             of \in {<<"F2", "F1">>, <<"F2", "F1", "F2">>},
             fp \in {<<"1874:10">>, <<"1874:10", "1874:10">>},
             pf \in {<<"F2", "F1">>, <<"F1", "F2", "F1">>},
             lb \in {"abel", "Schmidt"}} :
       Done(renderInfo(activateTab([Cur EXCEPT !.pdata = PanelData(files, DOMAIN files),
                                              !.panelUp = TRUE],
                                   panel.tab)),
            [op |-> "panelInit"])

NextResolve ==
  \/ PanelInitAny
  \/ TabClick
  \/ ListClick
  \/ TagClick

SpecResolve == Init /\ [][NextResolve]_vars

\* an id that no table and no index of the dataset holds
UnknownIds == {"X9"}

\* the panel's init() when loadAll() could not fetch or parse some resources:
\* jget returns null for each of them
PanelInitFailing ==
  /\ ~panelUp
  /\ \E failing \in SUBSET DOMAIN PanelFiles :
       Done(renderInfo(activateTab([Cur EXCEPT !.pdata = PanelData(PanelFiles,
                                                                   DOMAIN PanelFiles \ failing),
                                              !.panelUp = TRUE],
                                   panel.tab)),
            [op |-> "panelInit", failing |-> failing])

\* window.UISelect.family(id), .origin(id), .parcel(id)
CallUISelect ==
  \E kind \in Kinds :
    \E id \in IdsOf(kind) \cup UnknownIds :
      LET S == CASE kind = "family" -> selectFamily(Watched, id)
                 [] kind = "origin" -> selectOrigin(Watched, id)
                 [] kind = "parcel" -> selectParcel(Watched, id)
      IN Done(S, [op |-> "uiSelect", type |-> kind, id |-> id, views |-> S.views])

\* window.dispatchEvent(new CustomEvent('map:click:...', { detail })) by any
\* script: without a detail, with a detail that lacks the identifier, with an
\* empty identifier, with the id of an entity; e.detail?.handle (key, id) is
\* undefined in the first two cases, written "" here
DispatchMapClick ==
  \E kind \in Kinds :
    LET field == CASE kind = "origin" -> "handle" [] kind = "parcel" -> "key"
                   [] kind = "family" -> "id"
        details == {null, [commit |-> TRUE]}
                     \cup {[f \in {field, "commit"} |-> IF f = field THEN i ELSE c] :
                             i \in IdsOf(kind) \cup {""}, c \in BOOLEAN}
    IN \E detail \in details :
         LET key == IF detail = null \/ field \notin DOMAIN detail THEN "" ELSE detail[field]
             commit == detail # null /\ detail.commit
         IN Done(emit(Cur, "map:click:" \o kind, key, commit),
                 [op |-> "dispatch", type |-> kind, detail |-> detail, key |-> key])

NextSelect ==
  \/ PanelInitFailing
  \/ MapsInit
  \/ CallUISelect
  \/ DispatchMapClick

SpecSelect == Init /\ [][NextSelect]_vars

\* the maps' init() over one of them, when some fetches fail
\* what origins.json may hold instead: O1 with a parent that is O2, itself or
\* no origin, O2 with O1 as its parent, O2 named USA, O1 without coordinates
MapsInitAny ==
  /\ ~mapsUp
  /\ initErr = "none"
  /\ \E files \in
          {[MapFiles EXCEPT !.origins["O1"].parent = par, !.origins["O1"].hasCoords = hc,
                            !.origins["O2"].name = nm, !.origins["O2"].parent = par2] :
             par \in {"", "O2", "Z0", "O1"}, hc \in BOOLEAN, nm \in {"Zittau", "USA"},
             par2 \in {"", "O1"}},
          failing \in SUBSET DOMAIN MapFiles :
       Done(init(Cur, files, failing),
            [op |-> "mapsInit", files |-> files, failing |-> failing])

\* placeLineage(handle, { stopTypes: ['Country'] }), as the popups of both
\* layers call it when they open, once Data is loaded
CallPlaceLineage ==
  /\ mapsUp \/ initErr = "buildOriginsLayer"
  /\ \E handle \in OriginHandles \cup {"Z0"} :
       LET res == placeLineage(mdata.origins, handle, Cardinality(DOMAIN mdata.origins))
       IN Done([Cur EXCEPT !.initErr = IF res.hang THEN "hang" ELSE @],
               [op |-> "placeLineage", handle |-> handle, result |-> res])

NextLoad ==
  \/ PanelInitFailing
  \/ MapsInitAny
  \/ CallPlaceLineage

SpecLoad == Init /\ [][NextLoad]_vars

\* the maps' init() over one of them
\* what the maps' resources may hold instead: O2 at O1's point or without
\* coordinates, the feature of 1874:11 without a shape
MapsInitFit ==
  /\ ~mapsUp
  /\ initErr = "none"
  /\ \E files \in
          {[MapFiles EXCEPT !.origins["O2"] = o2, !.parcelsGeoJSON["1874:11"].valid = v] :
             o2 \in {MapFiles.origins["O2"],
                     [MapFiles.origins["O2"] EXCEPT !.lat = 10, !.lon = 10],
                     [MapFiles.origins["O2"] EXCEPT !.hasCoords = FALSE]},
             v \in BOOLEAN} : Done(init(Cur, files, {}), [op |-> "mapsInit"])

\* the maps a layer may be built on: as init() makes them, with a configured
\* maxZoom, with a tile layer of small maxZoom, without any tile layer; the
\* bounds asked for fill the container at zoom 3 or at zoom 25
MapConfigs ==
  {[maxZoom |-> {}, tiles |-> {20}, natural |-> 3],
   [maxZoom |-> {}, tiles |-> {20}, natural |-> 25],
   [maxZoom |-> {9}, tiles |-> {20}, natural |-> 25],
   [maxZoom |-> {}, tiles |-> {20, 8}, natural |-> 25],
   [maxZoom |-> {}, tiles |-> {}, natural |-> 25]}

\* ORIGINS_API.fit(handles, {maxZoom}) of a layer built on such a map
\* the handles and keys a caller of fit passes
CallOriginsFit ==
  /\ mapsUp
  /\ \E handles \in
          {<<>>, <<"O1">>, <<"O2">>, <<"O1", "O2">>, <<"X9">>, <<"X9", "O1">>, <<"O1", "X9", "O2">>}, opt \in {{}, {10}}, map \in MapConfigs :
       LET S == originsFit([Watched EXCEPT !.maps.mapO = map], handles, opt)
       IN Done(S, [op |-> "originsFit", list |-> handles, optMaxZoom |-> opt, map |-> map,
                   views |-> S.views])

\* PARCELS_API.fit(keys, {maxZoom})
CallParcelsFit ==
  /\ mapsUp
  /\ \E keys \in
          {<<>>, <<"1874:10">>, <<"1874:11">>, <<"1874:10", "1874:11">>, <<"1874:99">>,
           <<"1874:99", "1874:10">>}, opt \in {{}, {10}}, map \in MapConfigs :
       LET S == parcelsFit([Watched EXCEPT !.maps.mapC = map], keys, opt)
       IN Done(S, [op |-> "parcelsFit", list |-> keys, optMaxZoom |-> opt, map |-> map,
                   views |-> S.views])

\* window.dispatchEvent(new CustomEvent('ui:focus', {detail: {type, id}}))
DispatchUiFocus ==
  \E kind \in Kinds :
    \E id \in IdsOf(kind) \cup UnknownIds :
      LET S == onUiFocus(Watched, kind, id)
      IN Done(S, [op |-> "uiFocus", type |-> kind, id |-> id, views |-> S.views])

\* api.destroy() of a layer: unsub(); map.removeLayer(group). ORIGINS_API and
\* PARCELS_API keep the api object
CallDestroy ==
  /\ mapsUp
  /\ \E layer \in {"originsLayer", "parcelsLayer"} \ destroyed :
       Done([Cur EXCEPT !.destroyed = @ \cup {layer}], [op |-> "destroy", layer |-> layer])

NextFit ==
  \/ MapsInitFit
  \/ CallOriginsFit
  \/ CallParcelsFit
  \/ DispatchUiFocus
  \/ CallSetActiveOrigins
  \/ CallDestroy

SpecFit == Init /\ [][NextFit]_vars

\* families.json with other labels for F2
PanelInitLabels ==
  /\ ~panelUp
  /\ \E files \in
          {[PanelFiles EXCEPT !.families["F2"].label = lb] : lb \in {"abel", "Fischer", "SCHULZ"}} :
       Done(renderInfo(activateTab([Cur EXCEPT !.pdata = PanelData(files, DOMAIN files),
                                              !.panelUp = TRUE],
                                   panel.tab)),
            [op |-> "panelInit"])

\* the input listener of the filter box
\* what a user may type into the filter box: capitals, spaces around the text,
\* a space alone, a text no label holds, the start of a parcel key
FilterInputAny ==
  \E q \in {"", "sch", "SCH", "sch ", " ", "x", "1874:1"} :
    /\ panelUp
    /\ Done(renderBrowserList(Store_set(Cur, [filter |-> q])), [op |-> "filterInput", q |-> q])

NextFilter ==
  \/ PanelInitLabels
  \/ TabClick
  \/ FilterInputAny
  \/ ToggleAuto

SpecFilter == Init /\ [][NextFilter]_vars

\* the page with the followClicks toggle, the tabs, the list, the markers, the
\* Clear selection button and the preview strip in use
NextFollow ==
  \/ PanelInit
  \/ MapsInit
  \/ ToggleFollow
  \/ TabClick
  \/ ListClick
  \/ OriginMarkerClick
  \/ ShowPreview
  \/ PreviewOpenClick
  \/ PreviewDismissClick
  \/ ClearSel

SpecFollow == Init /\ [][NextFollow]_vars

-----------------------------------------------------------------------------
(* Claims *)

\* the first event a map callback dispatched: its map:click:* event
MapClickEvent == emitted[1]

\* the entities the info panel resolved for what it shows
ResolvedOrigins == IF info.type = "origin" THEN {info.id} ELSE SeqToSet(info.origins)
ResolvedParcels == IF info.type = "parcel" THEN {info.id} ELSE SeqToSet(info.parcels)

\* C1: a map click tagged commit=false leaves the committed selection as it was
\* and stores the clicked entity as the preview.
C1_PlainClickOnlyPreviews ==
  [][(lastOp'.op = "mapClick" /\ ~MapClickEvent'.commit)
       => /\ panel'.selection = panel.selection
          /\ panel'.preview.type = lastOp'.type
          /\ panel'.preview.id = lastOp'.id]_vars

\* C2: a map click tagged commit=true selects the clicked entity and leaves the
\* tab of its kind active, whatever the tab and autoSwitchTabs were.
C2_CommitClickForcesTab ==
  (lastOp.op = "mapClick" /\ MapClickEvent.commit)
    => /\ panel.selection = [type |-> lastOp.type, id |-> lastOp.id]
       /\ panel.tab = targetTabOf(lastOp.type)

C4_DismissOnlyClearsPreview ==
  [][lastOp'.op = "previewDismiss"
       => /\ panel'.preview = null
          /\ panel'.selection = panel.selection
          /\ panel'.tab = panel.tab
          /\ panel'.filter = panel.filter
          /\ hl' = hl]_vars

\* a pending preview has been dismissed with a selection, a filter and
\* highlights in place
C4_Witness ==
  /\ lastOp.op = "previewDismiss"
  /\ ~Falsy(lastOp.pending)
  /\ panel.preview = null
  /\ strip.hidden
  /\ ~Falsy(panel.selection)
  /\ panel.filter = "sch"
  /\ hl.activeOrigins # {}

\* C5: opening the preview p of the strip ends with p selected, the tab of p's
\* kind active and the preview null; while p is pending, an observer of the
\* Store sees the selection written with the preview still p, and the preview
\* cleared last.
C5_OpenPromotesPreview ==
  lastOp.op = "previewOpen"
    => LET sel == [type |-> lastOp.p.type, id |-> lastOp.p.id]
       IN /\ panel.selection = sel
          /\ panel.tab = targetTabOf(lastOp.p.type)
          /\ panel.preview = null
          /\ (subs # <<>> /\ lastOp.pending = lastOp.p)
               => /\ notes[1].state.selection = sel
                  /\ notes[1].state.preview = lastOp.pending
                  /\ notes[Len(notes)].state.preview = null
                  /\ \A i \in DOMAIN notes :
                       notes[i].state.preview = null => i = Len(notes)

\* a pending parcel preview has been opened from another tab with
\* autoSwitchTabs off, under an observer
C5_Witness ==
  /\ lastOp.op = "previewOpen"
  /\ lastOp.pending = lastOp.p
  /\ lastOp.p.type = "parcel"
  /\ lastOp.tabBefore = "families"
  /\ ~panel.autoSwitchTabs
  /\ panel.tab = "parcels"
  /\ subs # <<>>

\* C6: the open handler of one preview run twice in a row leaves the Store as
\* one run left it, and the second run activates no tab: the tab and filter are
\* not written again and no further pulse is scheduled.
C6_SecondOpenDoesNothing ==
  [][(lastOp.op = "previewOpen" /\ lastOp'.op = "previewOpen" /\ lastOp'.p = lastOp.p)
       => /\ panel' = panel
          /\ timers' = timers]_vars

\* C7: commitSelection(type, id, {forceTabSwitch}) selects {type, id}; with
\* shouldSwitch = forceTabSwitch or (autoSwitchTabs and tab # target tab), read
\* before the call, it ends on the target tab with an empty filter, and
\* otherwise with the tab and filter it found.
C7_TabPolicy ==
  [][lastOp'.op = "commitSelection"
       => LET target == CASE lastOp'.type = "family" -> "families"
                          [] lastOp'.type = "origin" -> "origins"
                          [] lastOp'.type = "parcel" -> "parcels"
          IN /\ panel'.selection = [type |-> lastOp'.type, id |-> lastOp'.id]
             /\ IF lastOp'.force \/ (panel.autoSwitchTabs /\ panel.tab # target)
                THEN panel'.tab = target /\ panel'.filter = ""
                ELSE panel'.tab = panel.tab /\ panel'.filter = panel.filter]_vars

\* an unforced commit with autoSwitchTabs off has kept another tab and its filter
C7_Witness ==
  /\ lastOp.op = "commitSelection"
  /\ ~lastOp.force
  /\ lastOp.type = "origin"
  /\ ~panel.autoSwitchTabs
  /\ panel.tab = "families"
  /\ panel.filter = "sch"
  /\ panel.selection = [type |-> "origin", id |-> lastOp.id]

\* C8: a click in the panel (a list row or an info tag) selects the entity,
\* applies the tab policy of commitSelection, recomputes the highlight sets and
\* emits ui:focus for the entity.
C8_PanelClickCommits ==
  [][lastOp'.op \in {"listClick", "tagClick"}
       => LET target == targetTabOf(lastOp'.type)
          IN /\ panel'.selection = [type |-> lastOp'.type, id |-> lastOp'.id]
             /\ IF panel.autoSwitchTabs /\ panel.tab # target
                THEN panel'.tab = target /\ panel'.filter = ""
                ELSE panel'.tab = panel.tab /\ panel'.filter = panel.filter
             /\ hl'.activeOrigins = ResolvedOrigins'
             /\ hl'.activeParcels = ResolvedParcels'
             /\ \E i \in DOMAIN emitted' :
                  emitted'[i] = [name |-> "ui:focus", type |-> lastOp'.type,
                                 id |-> lastOp'.id]]_vars

C10_SetIsShallowMerge ==
  lastOp.op = "set"
    => /\ \A f \in DOMAIN panel :
            panel[f] = IF f \in DOMAIN lastOp.patch THEN lastOp.patch[f] ELSE lastOp.before[f]
       /\ DOMAIN panel = DOMAIN lastOp.before
       /\ Len(notes) = Len(subs)
       /\ \A i \in DOMAIN subs : notes[i] = [sub |-> subs[i], state |-> panel]

\* a two-field patch has been merged into a state with a selection and a
\* preview, under two subscribers
C10_Witness ==
  /\ lastOp.op = "set"
  /\ DOMAIN lastOp.patch = {"tab", "filter"}
  /\ lastOp.before.tab # lastOp.patch.tab
  /\ ~Falsy(panel.selection)
  /\ ~Falsy(panel.preview)
  /\ panel.autoSwitchTabs
  /\ Len(subs) = 2

\* C11: subscribe(fn) puts fn after the subscribers already registered and
\* leaves them in place; the function it returned takes fn out and leaves the
\* others in their order; a mutation calls exactly the subscribers registered
\* at that time, in insertion order, so a callback is called from its subscribe
\* to its unsubscribe and not after.
C11_SubscribeContract ==
  [][/\ lastOp'.op = "subscribe" => subs' = Append(subs, lastOp'.fn)
     /\ lastOp'.op = "unsubscribe"
          => /\ lastOp'.fn \notin SeqToSet(subs')
             /\ subs' = SelectSeq(subs, LAMBDA g : g # lastOp'.fn)
     /\ lastOp'.op = "set" => (subs' = subs /\ [i \in DOMAIN notes' |-> notes'[i].sub] = subs)]_vars

\* s1 has been unsubscribed while s2 was registered too, and s2 is still there
C11_Witness ==
  /\ lastOp.op = "unsubscribe"
  /\ lastOp.fn = "s1"
  /\ subs = <<"s2">>
  /\ ~Falsy(panel.selection)

\* C12: setActiveOrigins(handles, {merge}) leaves activeOrigins the set of the
\* handles, united with what it was when merge is true, and activeParcels as it
\* was; setActiveParcels does the same with the two sets exchanged.
C12_SettersReplaceOrUnion ==
  /\ lastOp.op = "setActiveOrigins"
       => /\ hl.activeOrigins = {lastOp.args.list[i] : i \in DOMAIN lastOp.args.list}
                                  \cup (IF lastOp.args.merge THEN lastOp.before.activeOrigins ELSE {})
          /\ hl.activeParcels = lastOp.before.activeParcels
  /\ lastOp.op = "setActiveParcels"
       => /\ hl.activeParcels = {lastOp.args.list[i] : i \in DOMAIN lastOp.args.list}
                                  \cup (IF lastOp.args.merge THEN lastOp.before.activeParcels ELSE {})
          /\ hl.activeOrigins = lastOp.before.activeOrigins

\* O2 has been merged into {O1} with a parcel highlighted
C12_Witness ==
  /\ lastOp.op = "setActiveOrigins"
  /\ lastOp.args = [list |-> <<"O2">>, merge |-> TRUE]
  /\ lastOp.before.activeOrigins = {"O1"}
  /\ hl.activeOrigins = {"O1", "O2"}
  /\ hl.activeParcels = {"1874:11"}

\* C13: a setter or clear() that changes a highlight set leaves the Set object
\* the state held before with its old members and puts another object in the
\* state.
C13_NewSetObject ==
  lastOp.op \in {"setActiveOrigins", "setActiveParcels", "clear"}
    => /\ hl.activeOrigins # lastOp.before.activeOrigins
            => (lastOp.heldOrigins = lastOp.before.activeOrigins /\ ~lastOp.sameOrigins)
       /\ hl.activeParcels # lastOp.before.activeParcels
            => (lastOp.heldParcels = lastOp.before.activeParcels /\ ~lastOp.sameParcels)

\* C14: the Clear selection control leaves both highlight sets empty, makes one
\* round of notification to the subscribers registered, no view-setting call and writes
\* nothing of the panel: its Store, info panel, list and preview strip.
C14_ClearOnlyEmptiesHighlights ==
  [][lastOp'.op = "clearSel"
       => /\ hl' = [activeOrigins |-> {}, activeParcels |-> {}]
          /\ lastOp'.notified = <<IF mapsUp THEN <<"parcelsLayer", "originsLayer", "recenter">>
                                   ELSE <<>> >>
          /\ lastOp'.views = <<>>
          /\ emitted' = <<>>
          /\ UNCHANGED <<panel, info, list, strip, timers, popup>>]_vars

\* the control has been used with the maps up, a parcel committed and shown in
\* the panel under a filter
C14_Witness ==
  /\ lastOp.op = "clearSel"
  /\ mapsUp
  /\ panel.selection = [type |-> "parcel", id |-> "1874:11"]
  /\ info.origins # <<>>
  /\ panel.filter = "sch"
  /\ hl.activeOrigins = {}

\* C17: when ui:highlight replaces both highlight sets, no subscriber is passed
\* a state with the new activeOrigins and the old activeParcels, or the reverse.
C17_NoTornHighlight ==
  (lastOp.op = "uiHighlight"
     /\ hl.activeOrigins # lastOp.before.activeOrigins
     /\ hl.activeParcels # lastOp.before.activeParcels)
    => \A i \in DOMAIN lastOp.seen :
         lastOp.seen[i].subs # <<>>
           => [activeOrigins |-> lastOp.seen[i].activeOrigins,
               activeParcels |-> lastOp.seen[i].activeParcels] \in {lastOp.before, hl}

\* the state object after patch is merged into state, field by field
Merged(state, patch) ==
  [f \in DOMAIN state |-> IF f \in DOMAIN patch THEN patch[f] ELSE state[f]]

C16_ReentrantSetSeenByAll ==
  lastOp.op = "set"
    => LET outer == Merged(lastOp.before, lastOp.patch)
           reacts == "r" \in SeqToSet(subs) /\ outer.filter # ""
           inner == Merged(outer, [filter |-> ""])
           versions == IF reacts THEN {outer, inner} ELSE {outer}
       IN /\ panel = IF reacts THEN inner ELSE outer
          /\ \A i \in DOMAIN subs : \A v \in versions :
               \E k \in DOMAIN notes : notes[k] = [sub |-> subs[i], state |-> v]

\* an array that holds no value twice
NoDuplicates(xs) == \A i, j \in DOMAIN xs : xs[i] = xs[j] => i = j

\* the label the panel shows for a family: Data.families[fid]?.label || fid
FamilyLabel(fid) ==
  IF fid \in DOMAIN pdata.families THEN pdata.families[fid].label ELSE fid

\* C18: whatever is selected, the family, origin and parcel lists the panel
\* shows name no id, handle or key twice, and neither do the lists sent in
\* ui:highlight; two families with one label are both shown.
C18_ResolvedListsAreSets ==
  /\ NoDuplicates(info.families)
  /\ NoDuplicates(info.origins)
  /\ NoDuplicates(info.parcels)
  /\ \A i \in DOMAIN emitted :
       emitted[i].name = "ui:highlight"
         => NoDuplicates(emitted[i].origins) /\ NoDuplicates(emitted[i].parcels)
  /\ info.type = "origin"
       => SeqToSet(info.families) = SeqToSet(Lookup(pdata.originFamilyIndex, info.id))

\* C19: for an origin whose entry in the origin -> parcels index is not empty,
\* a selection made with both scripts loaded shows and highlights exactly the
\* parcels of that entry.
C19_DirectIndexPreferred ==
  LET direct == Lookup(mdata.originParcelIndex, info.id)
  IN (/\ lastOp.op \in {"listClick", "tagClick", "mapClick"}
      /\ panelUp /\ mapsUp
      /\ info.type = "origin"
      /\ direct # <<>>)
       => /\ SeqToSet(info.parcels) = SeqToSet(direct)
          /\ hl.activeParcels = SeqToSet(direct)

\* C20: the families shown for an origin or a parcel are in the order of their
\* labels under the case-insensitive comparison.
C20_FamiliesInLabelOrder ==
  info.type \in {"origin", "parcel"}
    => \A i, j \in DOMAIN info.families :
         i < j => byAlphaLeq(FamilyLabel(info.families[i]), FamilyLabel(info.families[j]))

\* C21: selecting the family F shows exactly the origins of familyOriginIndex[F]
\* and the parcels of familyParcelIndex[F], none where the index has no entry,
\* sends them in ui:highlight and leaves the two highlight sets holding them.
C21_FamilyResolvesIndexes ==
  (lastOp.op = "uiSelect" /\ lastOp.type = "family")
    => LET F == lastOp.id
           origins == IF F \in DOMAIN pdata.familyOriginIndex
                      THEN pdata.familyOriginIndex[F] ELSE <<>>
           parcels == IF F \in DOMAIN pdata.familyParcelIndex
                      THEN pdata.familyParcelIndex[F] ELSE <<>>
       IN /\ info.origins = origins
          /\ info.parcels = parcels
          /\ emitted[1] = [name |-> "ui:highlight", origins |-> origins, parcels |-> parcels,
                           source |-> "panel"]
          /\ hl.activeOrigins = {origins[i] : i \in DOMAIN origins}
          /\ hl.activeParcels = {parcels[i] : i \in DOMAIN parcels}

\* F1 has been selected with the whole dataset loaded, and both highlight sets
\* hold its one origin and its one parcel
C21_Witness ==
  /\ lastOp.op = "uiSelect"
  /\ lastOp.type = "family"
  /\ lastOp.id = "F1"
  /\ pdata = PanelFiles
  /\ info.origins = <<"O1">>
  /\ info.parcels = <<"1874:10">>
  /\ hl = [activeOrigins |-> {"O1"}, activeParcels |-> {"1874:10"}]

\* C22: selecting an id that no table and no index holds runs to its end for
\* each of the three kinds: the selection is committed, the info panel shows
\* the raw id as the label and no related entity, ui:highlight and ui:focus are
\* both sent and the highlight holds at most the id itself.
C22_UnknownIdTolerated ==
  (lastOp.op = "uiSelect" /\ lastOp.id \in UnknownIds)
    => /\ panel.selection = [type |-> lastOp.type, id |-> lastOp.id]
       /\ info.type = lastOp.type
       /\ info.id = lastOp.id
       /\ info.label = lastOp.id
       /\ info.families = <<>> /\ info.origins = <<>> /\ info.parcels = <<>>
       /\ Len(emitted) = 2
       /\ emitted[1].name = "ui:highlight"
       /\ emitted[2] = [name |-> "ui:focus", type |-> lastOp.type, id |-> lastOp.id]
       /\ hl.activeOrigins = IF lastOp.type = "origin" THEN {lastOp.id} ELSE {}
       /\ hl.activeParcels = IF lastOp.type = "parcel" THEN {lastOp.id} ELSE {}

\* an unknown family id has been selected with both scripts loaded and a
\* known selection's highlight in place before
C22_Witness ==
  /\ lastOp.op = "uiSelect"
  /\ lastOp.type = "family"
  /\ lastOp.id \in UnknownIds
  /\ panelUp /\ mapsUp
  /\ pdata = PanelFiles
  /\ info.label = "X9"
  /\ panel.selection.id = "X9"

\* C23: with every resource fetched, the maps' init() builds both layers
\* whatever the dataset refers to: an origin whose parent handle names no
\* origin makes no operation raise.
C23_DanglingReferenceTolerated ==
  (lastOp.op = "mapsInit" /\ lastOp.failing = {})
    => /\ initErr = "none"
       /\ mapsUp

\* C24: a load ends with every resource that could not be fetched or parsed
\* replaced by an empty mapping and every other resource in place, for the
\* panel's loadAll and for the maps' loadAllData, and the script goes on.
C24_LoadSurvivesFailures ==
  /\ lastOp.op = "panelInit"
       => /\ panelUp
          /\ \A r \in DOMAIN pdata :
               pdata[r] = IF r \in lastOp.failing THEN EmptyMap ELSE PanelFiles[r]
  /\ lastOp.op = "mapsInit"
       => /\ initErr # "loadAllData"
          /\ \A r \in DOMAIN mdata :
               mdata[r] = IF r \in lastOp.failing THEN EmptyMap ELSE lastOp.files[r]

\* C25: nothing of the panel is rendered and no map:click:* is handled by it
\* while its dataset is unloaded, and no layer exists before the maps' dataset
\* is loaded.
C25_NoRenderBeforeLoad ==
  /\ ~panelUp => (info = Blank /\ list = <<>> /\ Falsy(panel.selection))
  /\ (registry(Cur) # {} \/ byKey(Cur) # {}) => mdata = MapFiles

\* the handles of a list that name an origin with coordinates, and the keys
\* that name a polygon with a shape
ResolvableHandles(xs) ==
  SelectSeq(xs, LAMBDA h : h \in DOMAIN mdata.origins /\ mdata.origins[h].hasCoords)

\* where an origin lies
PointOf(h) == [lat |-> mdata.origins[h].lat, lon |-> mdata.origins[h].lon]

\* the finite caps of a fit on a map: what is asked for, the maxZoom option,
\* the map's configured maxZoom and the smallest maxZoom of its tile layers
Caps(map, requested, optMaxZoom) ==
  requested \cup optMaxZoom \cup map.maxZoom
    \cup (IF map.tiles = {} THEN {} ELSE {CHOOSE t \in map.tiles : \A u \in map.tiles : t <= u})

\* C26: a fit whose handles or keys resolve to no geometry makes no
\* view-setting call, and a fit makes the calls it makes for the resolvable ones
\* of its handles alone; the recentering subscriber makes no call for active
\* origins without a marker.
C26_UnresolvableHandlesIgnored ==
  /\ (lastOp.op = "setActiveOrigins" /\ hl.activeOrigins \cap registry(Cur) = {})
       => lastOp.views = <<>>
  /\ lastOp.op = "originsFit"
       => LET res == ResolvableHandles(lastOp.list)
              S0 == [Watched EXCEPT !.maps.mapO = lastOp.map]
          IN /\ res = <<>> => lastOp.views = <<>>
             /\ lastOp.views = originsFit(S0, res, lastOp.optMaxZoom).views
  /\ lastOp.op = "parcelsFit"
       => LET res == SelectSeq(lastOp.list, LAMBDA k : /\ k \in DOMAIN mdata.parcelsGeoJSON
                                                         /\ mdata.parcelsGeoJSON[k].valid)
              S0 == [Watched EXCEPT !.maps.mapC = lastOp.map]
          IN /\ res = <<>> => lastOp.views = <<>>
             /\ lastOp.views = parcelsFit(S0, res, lastOp.optMaxZoom).views

\* the origins map has been fitted to O1, an unknown handle and an origin
\* without coordinates, and was centred on O1
C26_Witness ==
  /\ lastOp.op = "originsFit"
  /\ lastOp.list = <<"O1", "X9", "O2">>
  /\ ~mdata.origins["O2"].hasCoords
  /\ Len(lastOp.views) = 1
  /\ lastOp.views[1].center = [lat |-> 10, lon |-> 10]

\* C27: a fit with one resolvable point is one setView call centred on the
\* point, at the least of the finite caps (the map's maximum zoom as the zoom
\* asked for, the maxZoom option, the configured maxZoom, the smallest tile
\* layer maxZoom), so at a zoom above none of them; the recentering subscriber
\* sets its maxZoom, which is above none of the caps of its map.
C27_SinglePointClamped ==
  /\ (lastOp.op = "originsFit" /\ Len(ResolvableHandles(lastOp.list)) = 1)
       => LET caps == Caps(lastOp.map, getMaxZoom(lastOp.map), lastOp.optMaxZoom)
          IN /\ Len(lastOp.views) = 1
             /\ lastOp.views[1].map = "mapO"
             /\ lastOp.views[1].call = "setView"
             /\ lastOp.views[1].center = PointOf(ResolvableHandles(lastOp.list)[1])
             /\ \A z \in lastOp.views[1].zoom : \A c \in caps : z <= c
             /\ lastOp.views[1].zoom \subseteq caps
             /\ caps # {} => lastOp.views[1].zoom # {}
  /\ (lastOp.op = "setActiveOrigins" /\ Cardinality(hl.activeOrigins \cap registry(Cur)) = 1)
       => LET h == CHOOSE x \in hl.activeOrigins \cap registry(Cur) : TRUE
          IN /\ lastOp.views = <<[map |-> "mapO", call |-> "setView", center |-> PointOf(h),
                                  zoom |-> {MAX_Z_ORIGINS}]>>
             /\ \A c \in Caps(Maps.mapO, {}, {MAX_Z_ORIGINS}) : MAX_Z_ORIGINS <= c

\* O1 alone has been fitted with maxZoom 10 on a map with a tile layer of
\* maxZoom 8, at zoom 8
C27_Witness ==
  /\ lastOp.op = "originsFit"
  /\ lastOp.list = <<"X9", "O1">>
  /\ lastOp.optMaxZoom = {10}
  /\ lastOp.map.tiles = {20, 8}
  /\ lastOp.views[1].zoom = {8}

\* C28: every camera move made for a selection (the two layers' fit, the
\* recentering subscriber) is a setView call, never a fitBounds call, at a zoom
\* above none of the caps of its map.
C28_SetViewNeverFitBounds ==
  lastOp.op \in {"originsFit", "parcelsFit", "uiFocus", "setActiveOrigins"}
    => \A i \in DOMAIN lastOp.views :
         LET v == lastOp.views[i]
             map == IF lastOp.op \in {"originsFit", "parcelsFit"} THEN lastOp.map
                    ELSE Maps[v.map]
         IN /\ v.call = "setView"
            /\ \A z \in v.zoom : \A c \in Caps(map, {}, {}) : z <= c

\* C29: a fit of the origins map to several handles that resolve to one point
\* is one setView call on that point at the zoom a fit of one of them alone
\* uses, and no fitBounds call; so is the recentering subscriber's move.
C29_CoincidentPointsAsSinglePoint ==
  /\ (/\ lastOp.op = "originsFit"
      /\ Len(ResolvableHandles(lastOp.list)) >= 2
      /\ Cardinality({PointOf(h) : h \in SeqToSet(ResolvableHandles(lastOp.list))}) = 1)
       => LET h == ResolvableHandles(lastOp.list)[1]
              S0 == [Watched EXCEPT !.maps.mapO = lastOp.map]
          IN /\ Len(lastOp.views) = 1
             /\ lastOp.views[1].call = "setView"
             /\ lastOp.views[1].center = PointOf(h)
             /\ lastOp.views = originsFit(S0, <<h>>, lastOp.optMaxZoom).views
  /\ (/\ lastOp.op = "setActiveOrigins"
      /\ Cardinality(hl.activeOrigins \cap registry(Cur)) >= 2
      /\ Cardinality({PointOf(h) : h \in hl.activeOrigins \cap registry(Cur)}) = 1)
       => lastOp.views = <<[map |-> "mapO", call |-> "setView",
                            center |-> [lat |-> 10, lon |-> 10], zoom |-> {MAX_Z_ORIGINS}]>>

\* O1 and O2, both at (10, 10), have been fitted with maxZoom 10 on the map
\* as init() makes it, by setView at zoom 10
C29_Witness ==
  /\ lastOp.op = "originsFit"
  /\ lastOp.list = <<"O1", "O2">>
  /\ PointOf("O1") = PointOf("O2")
  /\ mdata.origins["O2"].hasCoords
  /\ lastOp.optMaxZoom = {10}
  /\ lastOp.map = [maxZoom |-> {}, tiles |-> {20}, natural |-> 25]
  /\ lastOp.views = <<[map |-> "mapO", call |-> "setView", center |-> [lat |-> 10, lon |-> 10],
                       zoom |-> {10}]>>

\* the list names, each once and in the case-insensitive order of the labels,
\* exactly the ids of the active tab whose lower-cased label contains q
ListIsFilteredBy(q) ==
  LET ids == CASE panel.tab = "families" -> DOMAIN pdata.families
               [] panel.tab = "origins" -> DOMAIN pdata.origins
               [] panel.tab = "parcels" -> DOMAIN pdata.parcelFamilyIndex
      label(id) == CASE panel.tab = "families" -> pdata.families[id].label
                     [] panel.tab = "origins" -> pdata.origins[id].name
                     [] panel.tab = "parcels" -> id
  IN /\ {list[i] : i \in DOMAIN list}
          = {id \in ids : includes(toLowerCase(Chars[label(id)]), toLowerCase(q))}
     /\ \A i, j \in DOMAIN list : list[i] = list[j] => i = j
     /\ \A i, j \in DOMAIN list : i < j => collation[label(list[i])] <= collation[label(list[j])]

\* C30 as stated: the list holds exactly the items of the active tab whose
\* label contains the filter text, letter case ignored, in the case-insensitive
\* order of the labels.
C30_FilterAsStated == panelUp => ListIsFilteredBy(Chars[panel.filter])

\* C30: the list holds exactly the items of the active tab whose label
\* contains the filter text without the spaces at its ends, letter case
\* ignored, in the case-insensitive order of the labels; an empty filter, or
\* one of spaces only, keeps every item.
C30_FilterTrimmed == panelUp => ListIsFilteredBy(trim(Chars[panel.filter]))

\* the families tab filtered by "SCH" shows Fischer before Schmidt
C30_Witness ==
  /\ lastOp.op = "filterInput"
  /\ panel.tab = "families"
  /\ panel.filter = "SCH"
  /\ pdata.families["F2"].label = "Fischer"
  /\ list = <<"F2", "F1">>

\* C31: every view-setting call of a layer fit passes a finite zoom: the
\* smallest of the finite caps, and a finite zoom all the same when no cap is
\* finite.
C31_ClampAlwaysFinite ==
  lastOp.op \in {"originsFit", "parcelsFit"}
    => \A i \in DOMAIN lastOp.views : lastOp.views[i].zoom # {}

\* C32: a tab-pulse timeout that fires changes no field of the panel Store and
\* none of the highlight Store, notifies no subscriber and emits no event,
\* whatever ran since the commit that set it.
C32_PulseTimeoutCosmetic ==
  [][lastOp'.op = "pulseTimeout"
       => /\ panel' = panel
          /\ hl' = hl
          /\ subs' = subs
          /\ notes' = <<>>
          /\ emitted' = <<>>
          /\ timers' = timers - 1]_vars

\* a timeout has fired while a later one is pending, after the tab its commit
\* switched to was left again
C32_Witness ==
  /\ lastOp.op = "pulseTimeout"
  /\ timers = 1
  /\ panel.selection = [type |-> "parcel", id |-> "1874:10"]
  /\ panel.tab = "origins"
  /\ panel.filter = "sch"

\* C33: with both scripts loaded, the handles and keys the ui:focus listener
\* passes to the fitters for a selection are, as sets, the origins and parcels
\* of the ui:highlight event emitted for that selection.
C33_FocusAgreesWithHighlight ==
  (lastOp.op = "uiSelect" /\ mapsUp /\ panelUp)
    => LET highlight == emitted[1]
           focus == emitted[2]
           targets == focusTargets(Cur, focus.type, focus.id)
       IN /\ highlight.name = "ui:highlight"
          /\ focus.name = "ui:focus"
          /\ SeqToSet(targets.origins) = SeqToSet(highlight.origins)
          /\ SeqToSet(targets.parcels) = SeqToSet(highlight.parcels)

\* C34: from two states that differ in followClicks alone, every input (a tab
\* click, filter text, the other toggle, a selection from the list or a tag, a
\* map click with either commit value, the two buttons of the preview strip)
\* leads to two states that differ in followClicks alone: the flag decides
\* nothing.
C34_FollowClicksDecidesNothing ==
  LET Twin == [Cur EXCEPT !.panel.followClicks = ~@]
      Rest(S) == [S EXCEPT !.panel.followClicks = FALSE]
      plain == [oe |-> TRUE, keys |-> {}]
      shift == [oe |-> TRUE, keys |-> {"shift"}]
  IN /\ \A tab \in Tabs : Rest(activateTab(Cur, tab)) = Rest(activateTab(Twin, tab))
     /\ \A q \in Filters :
          Rest(renderBrowserList(Store_set(Cur, [filter |-> q])))
            = Rest(renderBrowserList(Store_set(Twin, [filter |-> q])))
     /\ \A b \in BOOLEAN :
          Rest(Store_set(Cur, [autoSwitchTabs |-> b])) = Rest(Store_set(Twin, [autoSwitchTabs |-> b]))
     /\ \A id \in FamilyIds :
          /\ Rest(selectFamily(Cur, id)) = Rest(selectFamily(Twin, id))
          /\ \A c \in BOOLEAN : Rest(emit(Cur, "map:click:family", id, c))
                                   = Rest(emit(Twin, "map:click:family", id, c))
     /\ \A id \in OriginHandles :
          /\ Rest(selectOrigin(Cur, id)) = Rest(selectOrigin(Twin, id))
          /\ \A ev \in {plain, shift} : Rest(onOriginClick(Cur, id, ev)) = Rest(onOriginClick(Twin, id, ev))
     /\ \A id \in ParcelKeys :
          /\ Rest(selectParcel(Cur, id)) = Rest(selectParcel(Twin, id))
          /\ \A ev \in {plain, shift} : Rest(onParcelClick(Cur, id, ev)) = Rest(onParcelClick(Twin, id, ev))
     /\ ~Falsy(strip.open)
          => Rest(previewOpenClick(Cur, strip.open)) = Rest(previewOpenClick(Twin, strip.open))
     /\ Rest(previewDismissClick(Cur)) = Rest(previewDismissClick(Twin))

\* with followClicks on and a preview pending, a plain click on a marker has
\* selected its origin
C34_Witness ==
  /\ lastOp.op = "mapClick"
  /\ lastOp.ev.keys = {}
  /\ panel.followClicks
  /\ ~Falsy(panel.preview)
  /\ panel.selection = [type |-> "origin", id |-> lastOp.id]

\* C35: one callback dispatches at most three events and then stops: a
\* map:click:* event comes first and only from a map click, ui:highlight and
\* ui:focus follow it as a pair, and nothing comes after ui:focus; a map click
\* on a loaded page dispatches all three and leaves the clicked entity selected.
C35_CascadeEnds ==
  LET names == [i \in DOMAIN emitted |-> emitted[i].name]
      click == "map:click:" \o lastOp.type
  IN /\ names \in {<<>>, <<"ui:highlight", "ui:focus">>}
          \cup {<<c>> \o rest : c \in {"map:click:origin", "map:click:parcel", "map:click:family"},
                                rest \in {<<>>, <<"ui:highlight", "ui:focus">>}}
     /\ lastOp.op = "mapClick"
          => /\ names = <<click, "ui:highlight", "ui:focus">>
             /\ emitted[1].id = lastOp.id
             /\ panel.selection = [type |-> lastOp.type, id |-> lastOp.id]
     /\ lastOp.op # "mapClick" => (names # <<>> => names[1] = "ui:highlight")

\* a marker has been clicked: its popup is open, its origin is highlighted and
\* selected, and the three events were dispatched
C35_Witness ==
  /\ lastOp.op = "mapClick"
  /\ lastOp.via = "marker"
  /\ Len(emitted) = 3
  /\ popup.o = lastOp.id
  /\ lastOp.id \in hl.activeOrigins
  /\ panel.selection = [type |-> "origin", id |-> lastOp.id]

\* C36: no callback takes a committed selection back to null, and every
\* selection written is a record of type family, origin or parcel.
C36_SelectionNeverNullAgain ==
  [][/\ panel.selection # null => panel'.selection # null
     /\ panel'.selection # null => panel'.selection.type \in Kinds]_vars

\* with the origin O1 selected, the Clear selection button has emptied both
\* highlight sets and the selection is still O1
C36_Witness ==
  /\ lastOp.op = "clearSel"
  /\ hl = [activeOrigins |-> {}, activeParcels |-> {}]
  /\ panel.selection = [type |-> "origin", id |-> "O1"]

\* C37: a map:click:* event without a detail, or whose detail lacks the
\* identifier or holds an empty one, changes nothing in the panel: the Store,
\* the info panel and the list stay as they were, the highlight sets too, and
\* no ui:highlight or ui:focus event is dispatched.
C37_ClickWithoutIdIgnored ==
  [][(lastOp'.op = "dispatch" /\ lastOp'.key = "")
       => /\ panel' = panel
          /\ info' = info
          /\ list' = list
          /\ strip' = strip
          /\ hl' = hl
          /\ Len(emitted') = 1
          /\ emitted'[1].name = "map:click:" \o lastOp'.type]_vars

\* a map:click:parcel event without a detail has been dispatched while the
\* family F1 was selected, and F1 is still what the panel shows
C37_Witness ==
  /\ lastOp.op = "dispatch"
  /\ lastOp.type = "parcel"
  /\ lastOp.detail = null
  /\ panel.selection = [type |-> "family", id |-> "F1"]
  /\ info.type = "family"
  /\ info.id = "F1"

\* C38: a destroyed layer is no longer among the subscribers a highlight
\* notification calls, and a ui:focus event makes no view-setting call on the
\* map of a destroyed layer.
C38_DestroyedLayerSilent ==
  /\ lastOp.op = "setActiveOrigins"
       => \A i \in DOMAIN lastOp.seen : SeqToSet(lastOp.seen[i].subs) \cap destroyed = {}
  /\ lastOp.op = "uiFocus"
       => \A i \in DOMAIN lastOp.views :
            /\ "originsLayer" \in destroyed => lastOp.views[i].map # "mapO"
            /\ "parcelsLayer" \in destroyed => lastOp.views[i].map # "mapC"

\* C39: no walk along the parent links goes on for ever: the maps' init(),
\* which calls isDescendantOfUSA for every origin with coordinates, comes to an
\* end, and so does every call of placeLineage.
C39_ParentWalksTerminate ==
  /\ lastOp.op = "mapsInit" => initErr # "hang"
  /\ lastOp.op = "placeLineage" => ~lastOp.result.hang

====
